---- MODULE Spec2Model ----
(***************************************************************************)
(* voxpaint: the Drawing (3D indexed-colour store), its edit journal       *)
(* (edit.py) and undo/redo, modelled from src/voxpaint/drawing.py,         *)
(* src/voxpaint/edit.py and src/voxpaint/palette.py.                       *)
(*                                                                         *)
(* Axes are numbered 0..2 as in the source; a shape, a cursor or a cell    *)
(* coordinate is a 3-tuple whose component for axis a is at position a+1.  *)
(* Cell coordinates and layer indices are 0-based as in the source.        *)
(***************************************************************************)
EXTENDS Integers, Sequences, FiniteSets, TLC

VARIABLES
    data,                  \* Drawing._data: the uint8 cell array, a function on Coords(shape)
    shape,                 \* Drawing._data.shape
    hidden_layers_by_axis, \* Drawing.hidden_layers_by_axis: per axis a sorted tuple of indices
    palette,               \* Palette._colors
    palette_overlay,       \* Palette.overlay: the pairs <<index, colour>> of the dict
    cursor,                \* Drawing.cursor
    version,               \* Drawing.version
    undos,                 \* Drawing.undos
    redos,                 \* Drawing.redos
    dirty,                 \* Drawing.dirty: None or a 3-tuple of slices
    masked_cached,         \* whether the lru_cache of Drawing._get_masked_data holds an entry
    path,                  \* Drawing.path
    last_saved_version,    \* Drawing.last_saved_version
    rotation,              \* DrawingView.rotation
    view_cache,            \* the entry of the lru_cache of DrawingView._get_data, or None
    mouse_event_queue,     \* VoxpaintWindow.mouse_event_queue: None, or <<events>> of the Queue
    stroke,                \* VoxpaintWindow.stroke: None, or <<state of the Future>>
    stroke_tool,           \* VoxpaintWindow.stroke_tool: None, or <<tool>>
    executor,              \* tasks of the single-worker executor, the first one running
    overlay_clears,        \* number of Overlay.clear_all() calls made by the window
    tools,                 \* number of Tool objects made by the window
    stroke_log,            \* history: what the strokes did, as <<kind, number of the stroke>>
    lock,                  \* Drawing.lock: None, or <<thread that holds it>>
    calls,                 \* per thread: None, or <<the Drawing method it is inside of>>
    overlay_data,          \* Overlay.data: per cell 0 (clear) or 1 (drawn)
    overlay_dirty,         \* Overlay.dirty: None, or <<Rectangle>>
    overlay_lock,          \* Overlay.lock: None, or <<thread that holds it>>
    overlay_texture,       \* the overlay texture of the renderer: per cell what was uploaded
    overlay_calls,         \* per thread: the Overlay method or frame it is inside of, and how far
    overlay_ops,           \* number of Overlay methods and lock blocks entered so far
    frame,                 \* history: how the last frame of the renderer dealt with the overlay
    view_sizes,            \* per open view: DrawingView.shape[:2]
    overlay_cache,         \* entries of the lru_cache of DrawingView._get_overlay, oldest first
    overlays_made,         \* number of Overlay objects constructed so far
    overlays_drawn,        \* the Overlay objects that something was drawn into
    in_use,                \* history: per view the Overlay it got since it has its size, or 0
    got,                   \* history: None, or <<what the last access to view.overlay gave>>
    returned,              \* history: value the last call returned, or None
    lastOp,                \* history: name of the last Drawing method called
    lastArgs,              \* history: arguments of that call (modify, insert_layers, delete_layers)
    raised,                \* history: exception that call raised, or NoExc
    completed,             \* history: the call ran to its end and journalled / moved an edit
    lastRegion,            \* history: box reported by the last Edit.perform / Edit.revert
    before,                \* history: store, version, stacks and call record before that call
    hist,                  \* history: hist[v+1] = store as it was when version v was last left
    steps                  \* history: number of calls made so far

\* the Overlay of the view and the renderer's copy of it
overlay_vars == <<overlay_data, overlay_dirty, overlay_lock, overlay_texture, overlay_calls,
                  overlay_ops, frame>>

\* the overlays of the open views, as DrawingView._get_overlay caches them
cache_vars == <<view_sizes, overlay_cache, overlays_made, overlays_drawn, in_use, got>>

\* the Drawing, its views and the window
drawing_vars == <<cache_vars, data, shape, hidden_layers_by_axis, palette, palette_overlay,
          cursor, version, undos, redos,
          dirty, masked_cached, path, last_saved_version, rotation, view_cache, returned,
          mouse_event_queue, stroke, stroke_tool, executor, overlay_clears, tools,
          stroke_log, lock, calls,
          lastOp, lastArgs, raised, completed, lastRegion, before, hist, steps>>

vars == <<drawing_vars, overlay_vars>>

-----------------------------------------------------------------------------
(* Bounds of the model *)

MaxCells == 3        \* largest store insert_layers is asked to make (cells, and size along an axis)
MaxVersion == 2      \* largest version (number of journalled edits)
MaxSteps == 2        \* longest sequence of calls explored with every method and input
MaxJournalSteps == 3 \* longest sequence of calls explored with the layer edits, undo and redo
MaxCount == 2        \* largest layer count n passed to insert_layers / delete_layers
MaxRun == 2          \* longest colour run passed to change_colors
MaxRegionCells == 2  \* largest number of cells of a modify() region
MaxLayerSteps == 2   \* longest sequence of calls explored on a drawing loaded with hidden layers
MaxViewSteps == 3    \* longest sequence of calls explored on a view
MaxSaveSteps == 3    \* longest sequence of calls explored with save
OverlayWidth == 2    \* cells of the (one row high) overlay explored
MaxStampSteps == 4   \* longest sequence of layer edits and undos explored for the version stamps
MaxCacheSteps == 7   \* longest sequence of overlay accesses and turns explored
MaxViews == 2        \* most views (one per open drawing) whose overlay is accessed
MaxOverlays == 5     \* most Overlay objects constructed
MaxCommitSteps == 16 \* statements after which no further method is begun
MaxDirtySteps == 12  \* statements after which no further edit or frame is begun
MaxOraSteps == 3     \* longest sequence of calls explored with to_ora and from_ora
MaxProtocolSteps == 9 \* longest sequence of events put and turns of make_stroke explored
MaxQueued == 2       \* most events waiting in the queue of a stroke
MaxPreviewSteps == 16 \* most statements of one stroke with an ephemeral tool
MaxPaletteSteps == 4 \* longest sequence of calls explored on the palette
MaxPaintSteps == 3   \* longest sequence of turns, reads and paints explored with a view
MaxOverlayOps == 2   \* most Overlay methods and lock blocks entered while the renderer runs
MaxLockSteps == 4    \* longest sequence of method entries and exits explored with two threads
MaxStrokeSteps == 7  \* longest sequence of mouse events and executor steps explored

(* Program constants *)

PaletteSize == 256          \* Palette.size
DefaultFiller == 999999     \* numpy.ma default fill value of integer arrays
OverlaySet == 255           \* coverage Brush.get_draw_data puts above the colour
OverlayCacheSize == 3       \* @lru_cache(3) of DrawingView._get_overlay

None == <<>>   \* Python None where a box (tuple of slices) is expected
NoExc == "NoExc"

-----------------------------------------------------------------------------
(* numpy helpers *)

Axes == 0..2

Min(a, b) == IF a < b THEN a ELSE b
Max(a, b) == IF a > b THEN a ELSE b

\* every index triple of an array of the given shape
Coords(sh) == (0..(sh[1] - 1)) \X (0..(sh[2] - 1)) \X (0..(sh[3] - 1))

Size(sh) == sh[1] * sh[2] * sh[3]

\* p with its component along axis replaced by v
WithAxis(p, axis, v) == [p EXCEPT ![axis + 1] = v]

\* a slice(start, stop)
Slice(a, b) == [start |-> a, stop |-> b]

\* the index triples a 3-tuple of slices selects
SliceCoords(slc) ==
    (slc[1].start..(slc[1].stop - 1)) \X (slc[2].start..(slc[2].stop - 1))
        \X (slc[3].start..(slc[3].stop - 1))

SliceShape(slc) == [a \in 1..3 |-> slc[a].stop - slc[a].start]

\* numpy clamps a slice to the array; the slice selects what it names only if it fits
SliceFits(slc, sh) == \A a \in 1..3 : 0 <= slc[a].start /\ slc[a].start <= slc[a].stop
                                     /\ slc[a].stop <= sh[a]

\* a uint32 overlay cell hi * 2**24 + lo, kept as its two parts
Overlay(hi, lo) == [hi |-> hi, lo |-> lo]

\* ndarray.astype(bool) of an overlay cell
OverlayBool(v) == v.hi # 0 \/ v.lo # 0

\* cast of an overlay cell to int16: its low 16 bits (2**24 is a multiple of 2**16)
OverlayToInt16(v) == LET m == v.lo % 65536 IN IF m >= 32768 THEN m - 65536 ELSE m

\* conversion of an integer to a numpy fixed-width type (wraps around)
ToUint8(v) == v % 256
ToInt16(v) == LET m == v % 65536 IN IF m >= 32768 THEN m - 65536 ELSE m

\* position of index triple p in the C-order byte string of an array (tobytes)
Linear(p, sh) == (p[1] * sh[2] + p[2]) * sh[3] + p[3]

\* ndarray.tobytes(): the values in C order, as a 1-based sequence
Flatten(arr, sh) ==
    [k \in 1..Size(sh) |-> arr[CHOOSE p \in Coords(sh) : Linear(p, sh) = k - 1]]

\* np.frombuffer(...).reshape(sh)
Reshape(flat, sh) == [p \in Coords(sh) |-> flat[Linear(p, sh) + 1]]

\* sorted(seq)
RECURSIVE Sorted(_)
Sorted(s) ==
    IF s = <<>> THEN <<>>
    ELSE LET i == CHOOSE i \in 1..Len(s) : \A j \in 1..Len(s) : s[i] <= s[j]
         IN <<s[i]>> \o Sorted(SubSeq(s, 1, i - 1) \o SubSeq(s, i + 1, Len(s)))

\* sorted(a set)
RECURSIVE SortedSet(_)
SortedSet(S) ==
    IF S = {} THEN <<>>
    ELSE LET m == CHOOSE m \in S : \A x \in S : m <= x
         IN <<m>> \o SortedSet(S \ {m})

SeqToSet(s) == {s[k] : k \in 1..Len(s)}

\* tuple(size - 1 - i for i in s)
Mirrored(s, size) == [k \in 1..Len(s) |-> size - 1 - s[k]]

\* (l + d for l in s)
Shifted(s, d) == [k \in 1..Len(s) |-> s[k] + d]

\* seq[:k] and seq[k:] of Python, for k >= 0
Take(s, k) == SubSeq(s, 1, Min(k, Len(s)))
Drop(s, k) == SubSeq(s, Min(k, Len(s)) + 1, Len(s))

Last(s) == s[Len(s)]
Front(s) == SubSeq(s, 1, Len(s) - 1)

-----------------------------------------------------------------------------
(* The Drawing's mutable state as one value, so that a method that raises  *)
(* half-way can hand back the state it left behind.                        *)

Store == [data |-> data, shape |-> shape, hidden |-> hidden_layers_by_axis,
          palette |-> palette, cursor |-> cursor, dirty |-> dirty,
          cached |-> masked_cached]

\* result of a call: the store it leaves, the exception it raised, the box it returned
Ret(D, e, s) == [D |-> D, exc |-> e, slc |-> s]

\* Drawing.full_slice
full_slice(sh) == [a \in 1..3 |-> Slice(0, sh[a])]

\* a hidden index numpy rejects when _get_masked_data masks the hidden layers
HiddenIndexError(sh, hid) ==
    \E a \in 1..3 : \E k \in 1..Len(hid[a]) : hid[a][k] >= sh[a] \/ hid[a][k] < -sh[a]

\* the mask _get_masked_data builds: a cell is masked if a hidden layer of some axis
\* holds it (numpy counts a negative index from the end)
IsMasked(sh, hid, p) ==
    \E a \in 1..3 : \E k \in 1..Len(hid[a]) :
        (IF hid[a][k] < 0 THEN hid[a][k] + sh[a] ELSE hid[a][k]) = p[a]

\* the Drawing.data property: served from the lru_cache, or rebuilt by
\* _get_masked_data, which marks the whole drawing dirty
GetData(D) ==
    IF D.cached THEN Ret(D, NoExc, None)
    ELSE IF HiddenIndexError(D.shape, D.hidden) THEN Ret(D, "IndexError", None)
    ELSE Ret([D EXCEPT !.cached = TRUE, !.dirty = full_slice(D.shape)], NoExc, None)

\* Drawing._update_hidden_layers
update_hidden_layers(D, axis, layers) ==
    [D EXCEPT !.hidden = [D.hidden EXCEPT ![axis + 1] = Sorted(layers)],
              !.cached = FALSE]

\* Drawing.set_cursor_axis
set_cursor_axis(D, axis, pos) == [D EXCEPT !.cursor = WithAxis(D.cursor, axis, pos)]

\* Drawing.move_cursor_axis: passes None for the two other axes, so move_cursor
\* reads self.data and then fails on `int + None`
move_cursor_axis(D, axis, delta) ==
    LET r == GetData(D)
    IN IF r.exc # NoExc THEN r ELSE Ret(r.D, "TypeError", None)

\* Drawing.move_cursor with three integers: clamps to the store
move_cursor(D, dx, dy, dz) ==
    LET r == GetData(D)
        d == <<dx, dy, dz>>
    IN IF r.exc # NoExc THEN r
       ELSE Ret([r.D EXCEPT !.cursor =
                    [a \in 1..3 |-> Min(D.shape[a] - 1, Max(0, D.cursor[a] + d[a]))]],
                NoExc, None)

-----------------------------------------------------------------------------
(* Drawing._really_* : the structural operations behind the edits *)

\* the two axes other than axis, in increasing order
OtherAxes(axis) == IF axis = 0 THEN <<1, 2>> ELSE IF axis = 1 THEN <<0, 2>> ELSE <<0, 1>>

\* np.flip(arr, axis)
Flip(arr, sh, axis) ==
    [p \in Coords(sh) |-> arr[WithAxis(p, axis, sh[axis + 1] - 1 - p[axis + 1])]]

\* shape of np.rot90(arr, k, (aa, ab))
Rot90Shape(sh, k, aa, ab) ==
    IF k % 2 = 0 THEN sh
    ELSE [sh EXCEPT ![aa + 1] = sh[ab + 1], ![ab + 1] = sh[aa + 1]]

\* np.rot90(arr, k, (aa, ab)): k % 4 quarter turns from axis aa towards axis ab
Rot90(arr, sh, k, aa, ab) ==
    LET kk == k % 4
        nsh == Rot90Shape(sh, k, aa, ab)
    IN [p \in Coords(nsh) |->
          IF kk = 0 THEN arr[p]
          ELSE IF kk = 2
            THEN arr[[p EXCEPT ![aa + 1] = sh[aa + 1] - 1 - p[aa + 1],
                               ![ab + 1] = sh[ab + 1] - 1 - p[ab + 1]]]
          ELSE IF kk = 1
            THEN arr[[p EXCEPT ![aa + 1] = p[ab + 1],
                               ![ab + 1] = sh[ab + 1] - 1 - p[aa + 1]]]
          ELSE arr[[p EXCEPT ![aa + 1] = sh[aa + 1] - 1 - p[ab + 1],
                             ![ab + 1] = p[aa + 1]]]]

\* one pass of the hidden-layer loop of _really_rotate; st = <<sa, la, sb, lb>>
RECURSIVE RotateHidden(_, _, _)
RotateHidden(st, i, positive) ==
    IF i = 0 THEN st
    ELSE LET sa == st[1]
             la == st[2]
             sb == st[3]
             lb == st[4]
         IN IF positive
            THEN RotateHidden(<<sb, Mirrored(lb, sb), sa, la>>, i - 1, positive)
            ELSE RotateHidden(<<sb, lb, sa, Mirrored(la, sa)>>, i - 1, positive)

\* Drawing._really_rotate
really_rotate(D, amount, axis) ==
    LET aa == OtherAxes(axis)[1]
        ab == OtherAxes(axis)[2]
        nsh == Rot90Shape(D.shape, amount, aa, ab)
        D1 == [D EXCEPT !.data = Rot90(D.data, D.shape, amount, aa, ab), !.shape = nsh]
        st0 == <<nsh[aa + 1], D.hidden[aa + 1], nsh[ab + 1], D.hidden[ab + 1]>>
        st == IF amount > 0 THEN RotateHidden(st0, amount, TRUE)
              ELSE RotateHidden(st0, -amount, FALSE)
        D2 == update_hidden_layers(D1, aa, st[2])
    IN Ret(update_hidden_layers(D2, ab, st[4]), NoExc, None)

\* Drawing._really_flip
really_flip(D, axis) ==
    LET size == D.shape[axis + 1]
        D1 == [D EXCEPT !.data = Flip(D.data, D.shape, axis)]
    IN Ret(update_hidden_layers(D1, axis, Mirrored(D.hidden[axis + 1], size)), NoExc, None)

\* Drawing._really_swap_layers
really_swap_layers(D, index1, index2, axis) ==
    LET n == D.shape[axis + 1]
        ok(i) == -n <= i /\ i < n
        norm(i) == IF i < 0 THEN i + n ELSE i
        hl == SeqToSet(D.hidden[axis + 1])
        nhl == IF index1 \in hl /\ index2 \notin hl THEN (hl \ {index1}) \cup {index2}
               ELSE IF index1 \notin hl /\ index2 \in hl THEN (hl \ {index2}) \cup {index1}
               ELSE hl
        D1 == [D EXCEPT !.data =
                 [p \in Coords(D.shape) |->
                    IF p[axis + 1] = norm(index2) THEN D.data[WithAxis(p, axis, norm(index1))]
                    ELSE IF p[axis + 1] = norm(index1) THEN D.data[WithAxis(p, axis, norm(index2))]
                    ELSE D.data[p]]]
    IN IF ~ok(index1) \/ ~ok(index2) THEN Ret(D, "IndexError", None)
       ELSE Ret(update_hidden_layers(D1, axis, SortedSet(nhl)), NoExc, None)

\* an index shift that leaves the hidden layers above the given layer where they were
upper_layers_unshifted(hl, from, d) == SelectSeq(hl, LAMBDA l : l >= from)

\* upper_layers of _really_insert_layers / _really_remove_layers:
\* (l + d for l in hidden_layers if l >= from)
upper_layers(hl, from, d) == Shifted(SelectSeq(hl, LAMBDA l : l >= from), d)

\* Drawing._really_insert_layers, its last three lines: the cursor follows its layer
insert_move_cursor(D, index, axis, n) ==
    IF D.cursor[axis + 1] >= index + n THEN move_cursor_axis(D, axis, n)
    ELSE Ret(D, NoExc, None)

\* Drawing._really_insert_layers; flat is the 1-D payload of the edit
really_insert_layers(D, flat, index, axis, n) ==
    LET bsh == [D.shape EXCEPT ![axis + 1] = n]
        N == D.shape[axis + 1]
        idx == IF index < 0 THEN index + N ELSE index
        nsh == [D.shape EXCEPT ![axis + 1] = N + n]
        block == Reshape(flat, bsh)
        D1 == [D EXCEPT !.shape = nsh,
                 !.data = [p \in Coords(nsh) |->
                    IF p[axis + 1] < idx THEN D.data[p]
                    ELSE IF p[axis + 1] < idx + n THEN block[WithAxis(p, axis, p[axis + 1] - idx)]
                    ELSE D.data[WithAxis(p, axis, p[axis + 1] - n)]]]
        hl == Sorted(D.hidden[axis + 1])
        lower == SelectSeq(hl, LAMBDA l : l < index)
        upper == upper_layers(hl, index, n)
    IN IF Len(flat) # Size(bsh) THEN Ret(D, "ValueError", None)
       ELSE IF index < -N \/ index > N THEN Ret(D, "IndexError", None)
       ELSE insert_move_cursor(update_hidden_layers(D1, axis, lower \o upper), index, axis, n)

\* Drawing._really_remove_layers, its last five lines: the cursor follows its layer
remove_move_cursor(D, index, axis, n) ==
    IF index <= D.cursor[axis + 1] /\ D.cursor[axis + 1] < index + n
    THEN Ret(set_cursor_axis(D, axis, Min(index, D.shape[axis + 1] - 1)), NoExc, None)
    ELSE IF D.cursor[axis + 1] >= index + n THEN move_cursor_axis(D, axis, -n)
    ELSE Ret(D, NoExc, None)

\* Drawing._really_remove_layers: np.delete is given the single index
really_remove_layers(D, index, axis, n) ==
    LET N == D.shape[axis + 1]
        idx == IF index < 0 THEN index + N ELSE index
        nsh == [D.shape EXCEPT ![axis + 1] = N - 1]
        D1 == [D EXCEPT !.shape = nsh,
                 !.data = [p \in Coords(nsh) |->
                    IF p[axis + 1] < idx THEN D.data[p]
                    ELSE D.data[WithAxis(p, axis, p[axis + 1] + 1)]]]
        hl == Sorted(D.hidden[axis + 1])
        lower == SelectSeq(hl, LAMBDA l : l < index)
        upper == upper_layers(hl, index + n, -n)
    IN IF index < -N \/ index >= N THEN Ret(D, "IndexError", None)
       ELSE remove_move_cursor(update_hidden_layers(D1, axis, lower \o upper), index, axis, n)

\* Palette.set_colors
set_colors(pal, start_i, colors) ==
    Take(pal, start_i) \o colors \o Drop(pal, start_i + Len(colors))

-----------------------------------------------------------------------------
(* edit.py: the Edit records, their create / perform / revert *)

\* LayerEdit.create: diff = data - mask * drawing.data[slc] computed in int16;
\* tobytes() of the masked result writes the fill value 0 in masked cells.
\* dat is the overlay data, a function on Coords(SliceShape(slc)).
LayerEdit_create(D, slc, dat, ver) ==
    LET ssh == SliceShape(slc)
        abs(q) == [a \in 1..3 |-> q[a] + slc[a].start]
        diff == [q \in Coords(ssh) |->
                   IF IsMasked(D.shape, D.hidden, abs(q)) THEN 0
                   ELSE ToInt16(OverlayToInt16(dat[q])
                                - (IF OverlayBool(dat[q]) THEN D.data[abs(q)] ELSE 0))]
    IN [kind |-> "LayerEdit", slc |-> slc, diff |-> Flatten(diff, ssh), version |-> ver]

\* LayerEdit.perform (sign = 1) and LayerEdit.revert (sign = -1)
LayerEdit_apply(e, D, sign) ==
    LET r == GetData(D)
        ssh == SliceShape(e.slc)
        diff == Reshape(e.diff, ssh)
        rel(p) == [a \in 1..3 |-> p[a] - e.slc[a].start]
        D1 == [r.D EXCEPT !.data =
                 [p \in Coords(r.D.shape) |->
                    IF p \in SliceCoords(e.slc)
                    THEN ToUint8(ToInt16(r.D.data[p] + sign * diff[rel(p)]))
                    ELSE r.D.data[p]]]
    IN IF r.exc # NoExc THEN r
       ELSE IF ~SliceFits(e.slc, r.D.shape) THEN Ret(r.D, "ValueError", None)
       ELSE Ret(D1, NoExc, e.slc)

\* PaletteEdit.perform / revert
PaletteEdit_apply(e, D, colors) ==
    Ret([D EXCEPT !.palette = set_colors(D.palette, e.start_index, colors)], NoExc, None)

\* `return drawing.full_slice` after the call whose outcome is r
return_full_slice(r) == IF r.exc # NoExc THEN r ELSE Ret(r.D, NoExc, full_slice(r.D.shape))

\* LayerSwapEdit.perform (= revert)
LayerSwapEdit_perform(e, D) ==
    return_full_slice(really_swap_layers(D, e.index1, e.index2, e.axis))

\* LayersDeleteEdit.create: np.take of the one layer `index` from the masked data;
\* tobytes() writes numpy's default fill value in masked cells
LayersDeleteEdit_create(D, index, axis, n, ver) ==
    LET N == D.shape[axis + 1]
        idx == IF index < 0 THEN index + N ELSE index
        lsh == [D.shape EXCEPT ![axis + 1] = 1]
        layer == [q \in Coords(lsh) |->
                    LET p == WithAxis(q, axis, idx)
                    IN IF IsMasked(D.shape, D.hidden, p) THEN ToUint8(DefaultFiller)
                       ELSE D.data[p]]
    IN [kind |-> "LayersDeleteEdit", index |-> index, axis |-> axis, n |-> n,
        data |-> Flatten(layer, lsh), version |-> ver]

\* LayersDeleteEdit.perform (= LayersInsertEdit.revert)
LayersDeleteEdit_perform(e, D) ==
    return_full_slice(really_remove_layers(D, e.index, e.axis, e.n))

\* LayersDeleteEdit.revert (= LayersInsertEdit.perform)
LayersDeleteEdit_revert(e, D) ==
    return_full_slice(really_insert_layers(D, e.data, e.index, e.axis, e.n))

\* LayersInsertEdit.create with the np.zeros payload insert_layers passes
LayersInsertEdit_create(D, index, axis, n, ver) ==
    [kind |-> "LayersInsertEdit", index |-> index, axis |-> axis, n |-> n,
     data |-> [k \in 1..Size([D.shape EXCEPT ![axis + 1] = n]) |-> 0], version |-> ver]

\* DrawingRotateEdit.perform / revert: no return statement, so None
DrawingRotateEdit_apply(e, D, amount) == really_rotate(D, amount, e.axis)

\* DrawingFlipEdit.perform (= revert): no return statement, so None
DrawingFlipEdit_perform(e, D) == really_flip(D, e.axis)

\* edit.perform(drawing)
Perform(e, D) ==
    CASE e.kind = "LayerEdit" -> LayerEdit_apply(e, D, 1)
      [] e.kind = "PaletteEdit" -> PaletteEdit_apply(e, D, e.data)
      [] e.kind = "LayerSwapEdit" -> LayerSwapEdit_perform(e, D)
      [] e.kind = "LayersDeleteEdit" -> LayersDeleteEdit_perform(e, D)
      [] e.kind = "LayersInsertEdit" -> LayersDeleteEdit_revert(e, D)
      [] e.kind = "DrawingRotateEdit" -> DrawingRotateEdit_apply(e, D, e.amount)
      [] e.kind = "DrawingFlipEdit" -> DrawingFlipEdit_perform(e, D)

\* edit.revert(drawing)
Revert(e, D) ==
    CASE e.kind = "LayerEdit" -> LayerEdit_apply(e, D, -1)
      [] e.kind = "PaletteEdit" -> PaletteEdit_apply(e, D, e.orig_data)
      [] e.kind = "LayerSwapEdit" -> LayerSwapEdit_perform(e, D)
      [] e.kind = "LayersDeleteEdit" -> LayersDeleteEdit_revert(e, D)
      [] e.kind = "LayersInsertEdit" -> LayersDeleteEdit_perform(e, D)
      [] e.kind = "DrawingRotateEdit" -> DrawingRotateEdit_apply(e, D, -e.amount)
      [] e.kind = "DrawingFlipEdit" -> DrawingFlipEdit_perform(e, D)

\* util.slice_union(slc, dirty, shape): the smallest box covering both; None is neutral
slice_union(slc, d, sh) ==
    IF slc = None THEN d
    ELSE IF d = None THEN slc
    ELSE [a \in 1..3 |-> Slice(Min(slc[a].start, d[a].start), Max(slc[a].stop, d[a].stop))]

-----------------------------------------------------------------------------
(* Initial state: a Drawing constructed from loaded data (from_ora / from_png) *)

InitShapes == {<<1, 1, 1>>, <<2, 1, 1>>}

\* palette.py DEFAULT_COLORS; Palette.__init__ pads them with black
DEFAULT_COLORS ==
   <<<<170, 170, 170, 0>>, <<255, 255, 255, 255>>, <<101, 101, 101, 255>>,
     <<223, 223, 223, 255>>, <<207, 48, 69, 255>>, <<223, 138, 69, 255>>,
     <<207, 223, 69, 255>>, <<138, 138, 48, 255>>, <<48, 138, 69, 255>>,
     <<69, 223, 69, 255>>, <<69, 223, 207, 255>>, <<48, 138, 207, 255>>,
     <<138, 138, 223, 255>>, <<69, 48, 207, 255>>, <<207, 48, 207, 255>>,
     <<223, 138, 207, 255>>, <<227, 227, 227, 255>>, <<223, 223, 223, 255>>,
     <<223, 223, 223, 255>>, <<195, 195, 195, 255>>, <<178, 178, 178, 255>>,
     <<170, 170, 170, 255>>, <<146, 146, 146, 255>>, <<130, 130, 130, 255>>,
     <<113, 113, 113, 255>>, <<113, 113, 113, 255>>, <<101, 101, 101, 255>>,
     <<81, 81, 81, 255>>, <<65, 65, 65, 255>>, <<48, 48, 48, 255>>,
     <<32, 32, 32, 255>>, <<32, 32, 32, 255>>, <<243, 0, 0, 255>>>>

\* a colour <<r, g, b, a>> of the palette, packed as its four bytes in a signed 32 bit word
Color(c) == (((c[1] - 128) * 256 + c[2]) * 256 + c[3]) * 256 + c[4]

Palette_init ==
    [i \in 1..PaletteSize |->
        Color(IF i <= Len(DEFAULT_COLORS) THEN DEFAULT_COLORS[i] ELSE <<0, 0, 0, 255>>)]

\* the part of the store the journal is meant to reproduce
Snapshot(D) == [data |-> D.data, shape |-> D.shape, hidden |-> D.hidden,
                palette |-> D.palette]

\* the store with its version and stacks, and the record of the call that produced it
Journalled == [store |-> Store, version |-> version, undos |-> undos, redos |-> redos,
               op |-> lastOp, args |-> lastArgs, done |-> completed, exc |-> raised,
               path |-> path, last_saved_version |-> last_saved_version,
               window |-> <<mouse_event_queue, stroke, stroke_tool, executor,
                            overlay_clears, tools>>]

\* Drawing.__init__ with the data and the hidden_layers handed to it
Constructed(sh, hid) ==
    /\ shape = sh
    /\ data = [p \in Coords(sh) |-> 1 + Linear(p, sh)]
    /\ hidden_layers_by_axis = hid
    /\ palette = Palette_init
    /\ palette_overlay = {}
    /\ cursor = <<0, 0, 0>>
    /\ version = 0
    /\ undos = <<>>
    /\ redos = <<>>
    /\ dirty = full_slice(sh)
    /\ masked_cached = FALSE
    /\ lastOp = "init"
    /\ lastArgs = <<>>
    /\ raised = NoExc
    /\ completed = FALSE
    /\ lastRegion = None
    /\ before = Journalled
    /\ hist = <<Snapshot(Store)>>
    /\ steps = 0

\* a file name as os.path.splitext sees it: (root, ext); None and "" are both falsy
Path(root, ext) == [root |-> root, ext |-> ext]
NoPath == Path("", "")

\* the threads that use a Drawing: the pyglet main thread and the worker of the executor
Threads == {"ui", "executor"}

\* Drawing.__init__: self.lock = RLock(); no thread is inside a method
Unlocked ==
    /\ lock = None
    /\ calls = [t \in Threads |-> None]

\* a thread that is inside no Overlay method; op is the last one it was inside of
NoCall(op) == [op |-> op, at |-> "idle", rect |-> None, seen |-> None]

\* Overlay.__init__: zeros, self.lock = RLock(), self.dirty = None; the texture starts empty
OverlayMade ==
    /\ overlay_data = [c \in 0..(OverlayWidth - 1) |-> 0]
    /\ overlay_dirty = None
    /\ overlay_lock = None
    /\ overlay_texture = [c \in 0..(OverlayWidth - 1) |-> 0]
    /\ overlay_calls = [t \in Threads |-> NoCall("none")]
    /\ overlay_ops = 0
    /\ frame = "none"

\* the views of the open drawings, one per drawing (VoxpaintWindow._views)
OpenViews == 1..MaxViews

\* no overlay has been asked for yet; every view shows a 2x1 layer
NoOverlays ==
    /\ view_sizes = [v \in OpenViews |-> <<2, 1>>]
    /\ overlay_cache = <<>>
    /\ overlays_made = 0
    /\ overlays_drawn = {}
    /\ in_use = [v \in OpenViews |-> 0]
    /\ got = None

\* the fields of VoxpaintWindow a stroke goes through
window_vars == <<mouse_event_queue, stroke, stroke_tool, executor, overlay_clears, tools,
                 stroke_log>>

\* VoxpaintWindow.__init__: no stroke, no queue, an executor without tasks
Idle ==
    /\ mouse_event_queue = None
    /\ stroke = None
    /\ stroke_tool = None
    /\ executor = <<>>
    /\ overlay_clears = 0
    /\ tools = 0
    /\ stroke_log = <<>>

\* the file the drawings of the model were loaded from
LoadedPath == Path("drawing", ".ora")

\* Drawing.__init__: path, last_saved_version; DrawingView.__init__: rotation
Opened(p, rot) ==
    /\ Idle
    /\ Unlocked
    /\ OverlayMade
    /\ NoOverlays
    /\ path = p
    /\ last_saved_version = 0
    /\ rotation = rot
    /\ view_cache = None
    /\ returned = None

\* a drawing loaded without hidden layers
Init == \E sh \in InitShapes :
            Opened(LoadedPath, <<0, 0, 0>>) /\ Constructed(sh, <<<<>>, <<>>, <<>>>>)

-----------------------------------------------------------------------------
(* Drawing methods *)

SetStore(D) ==
    /\ data' = D.data
    /\ shape' = D.shape
    /\ hidden_layers_by_axis' = D.hidden
    /\ palette' = D.palette
    /\ cursor' = D.cursor
    /\ dirty' = D.dirty
    /\ masked_cached' = D.cached

\* the record of one call and of what it returned
Recorded(op, args, exc, region, done, ret) ==
    /\ steps' = steps + 1
    /\ before' = Journalled
    /\ completed' = done
    /\ lastOp' = op
    /\ lastArgs' = args
    /\ raised' = exc
    /\ lastRegion' = region
    /\ returned' = ret

\* a call of a Drawing method that returns nothing and leaves the file, the view and the
\* window alone
Called(op, args, exc, region, done) ==
    /\ Recorded(op, args, exc, region, done, None)
    /\ UNCHANGED <<path, last_saved_version, rotation, view_cache>>
    /\ UNCHANGED window_vars

\* a call that leaves the store as D without moving the version
Stay(D) ==
    /\ SetStore(D)
    /\ UNCHANGED version
    /\ hist' = [hist EXCEPT ![version + 1] = Snapshot(D)]

\* the model asks insert_layers for stores within MaxCells only
WithinBounds(sh) == Size(sh) <= MaxCells /\ \A a \in 1..3 : sh[a] <= MaxCells

\* a _perform_edit that leaves the redo stack as it is
redos_kept(r) == r

\* Drawing._perform_edit: self.redos.clear()
redos_clear(r) == <<>>

\* the store D with the box slc added to its dirty region
with_dirty(D, slc) == [D EXCEPT !.dirty = slice_union(slc, D.dirty, D.shape)]

\* Drawing._perform_edit once edit.perform has given r
performed(e, D0, op, args, r) ==
    IF version # e.version
    THEN /\ Stay(D0)
         /\ UNCHANGED <<undos, redos>>
         /\ Called(op, args, "AssertionError", None, FALSE)
    ELSE IF r.exc # NoExc
    THEN /\ Stay(r.D)
         /\ UNCHANGED <<undos, redos>>
         /\ Called(op, args, r.exc, None, FALSE)
    ELSE /\ SetStore(with_dirty(r.D, r.slc))
         /\ version' = version + 1
         /\ undos' = Append(undos, e)
         /\ redos' = redos_clear(redos)
         /\ hist' = Append(Take(hist, version + 1), Snapshot(r.D))
         /\ Called(op, args, NoExc, r.slc, TRUE)

\* Drawing._perform_edit, D0 being the store as Edit.create left it
perform_edit(e, D0, op, args) == performed(e, D0, op, args, Perform(e, D0))

\* values of overlay cells: unpainted, painted with palette index 0, painted with index 5
DataValues == {Overlay(0, 0), Overlay(1, 0), Overlay(OverlaySet, 5)}

\* slices start:stop inside an axis of size n
AxisSlices(n) == UNION {{Slice(a, b) : b \in (a + 1)..n} : a \in 0..(n - 1)}

\* boxes of at most MaxRegionCells cells inside the store
Regions(sh) ==
    {slc \in AxisSlices(sh[1]) \X AxisSlices(sh[2]) \X AxisSlices(sh[3]) :
        Size(SliceShape(slc)) <= MaxRegionCells}

\* Drawing.modify(slc, data, tool)
modify(slc, dat) ==
    /\ version < MaxVersion
    /\ LET r == GetData(Store)
           args == [slc |-> slc, data |-> dat]
       IN IF r.exc # NoExc
          THEN /\ Stay(r.D)
               /\ UNCHANGED <<undos, redos>>
               /\ Called("modify", args, r.exc, None, FALSE)
          ELSE perform_edit(LayerEdit_create(r.D, slc, dat, version), r.D, "modify", args)

\* Drawing.rotate(amount, axis)
rotate(amount, axis) ==
    /\ version < MaxVersion
    /\ perform_edit([kind |-> "DrawingRotateEdit", amount |-> amount, axis |-> axis,
                     version |-> version],
                    Store, "rotate", <<>>)

\* Drawing.flip(axis)
flip(axis) ==
    /\ version < MaxVersion
    /\ perform_edit([kind |-> "DrawingFlipEdit", axis |-> axis, version |-> version],
                    Store, "flip", <<>>)

\* Drawing.change_colors(start_i, *colors)
change_colors(start_i, colors) ==
    /\ version < MaxVersion
    /\ LET orig_colors == Take(Drop(palette, start_i), Len(colors))
       IN perform_edit([kind |-> "PaletteEdit", start_index |-> start_i,
                        orig_data |-> orig_colors, data |-> colors, version |-> version],
                       Store, "change_colors", <<>>)

\* Drawing.move_layer(from_index, to_index, axis)
move_layer(from_index, to_index, axis) ==
    /\ version < MaxVersion
    /\ perform_edit([kind |-> "LayerSwapEdit", index1 |-> from_index, index2 |-> to_index,
                     axis |-> axis, version |-> version],
                    Store, "move_layer", <<>>)

\* Drawing.insert_layers(index, axis, n)
insert_layers(index, axis, n) ==
    /\ version < MaxVersion
    /\ WithinBounds([shape EXCEPT ![axis + 1] = shape[axis + 1] + n])
    /\ perform_edit(LayersInsertEdit_create(Store, index, axis, n, version),
                    Store, "insert_layers", [index |-> index, axis |-> axis, n |-> n])

\* Drawing.delete_layers(index, axis, n)
delete_layers(index, axis, n) ==
    /\ version < MaxVersion
    /\ LET r == GetData(Store)
           args == [index |-> index, axis |-> axis, n |-> n]
       IN IF r.exc # NoExc
          THEN /\ Stay(r.D)
               /\ UNCHANGED <<undos, redos>>
               /\ Called("delete_layers", args, r.exc, None, FALSE)
          ELSE perform_edit(LayersDeleteEdit_create(r.D, index, axis, n, version),
                            r.D, "delete_layers", args)

\* an undo()/redo() without its except clause
except_nothing(exc) == exc

\* Drawing.undo / Drawing.redo: `except IndexError: pass`
except_IndexError(exc) == IF exc = "IndexError" THEN NoExc ELSE exc

\* an undo() that leaves the version where the reverted edit had put it
reverted_version_kept(e) == e.version + 1

\* Drawing.undo: self.version = edit.version
reverted_version(e) == e.version

\* Drawing.undo once undos.pop() has given e and edit.revert has given r
reverted(e, r) ==
    /\ undos' = Front(undos)
    /\ IF version # e.version + 1
       THEN /\ Stay(Store)
            /\ UNCHANGED redos
            /\ Called("undo", <<>>, "AssertionError", None, FALSE)
       ELSE IF r.exc # NoExc
       THEN /\ Stay(r.D)
            /\ UNCHANGED redos
            /\ Called("undo", <<>>, except_IndexError(r.exc), None, FALSE)
       ELSE /\ redos' = Append(redos, e)
            /\ SetStore(with_dirty(r.D, r.slc))
            /\ version' = reverted_version(e)
            /\ UNCHANGED hist
            /\ Called("undo", <<>>, NoExc, r.slc, TRUE)

\* Drawing.undo()
undo ==
    IF undos = <<>>
    THEN \* undos.pop() raises IndexError
         /\ Stay(Store)
         /\ UNCHANGED <<undos, redos>>
         /\ Called("undo", <<>>, except_IndexError("IndexError"), None, FALSE)
    ELSE reverted(Last(undos), Revert(Last(undos), Store))

\* Drawing.redo once redos.pop() has given e and edit.perform has given r
replayed(e, r) ==
    /\ redos' = Front(redos)
    /\ IF version # e.version
       THEN /\ Stay(Store)
            /\ UNCHANGED undos
            /\ Called("redo", <<>>, "AssertionError", None, FALSE)
       ELSE IF r.exc # NoExc
       THEN /\ Stay(r.D)
            /\ UNCHANGED undos
            /\ Called("redo", <<>>, except_IndexError(r.exc), None, FALSE)
       ELSE /\ undos' = Append(undos, e)
            /\ SetStore(with_dirty(r.D, r.slc))
            /\ version' = version + 1
            /\ UNCHANGED hist
            /\ Called("redo", <<>>, NoExc, r.slc, TRUE)

\* Drawing.redo()
redo ==
    IF redos = <<>>
    THEN \* redos.pop() raises IndexError
         /\ Stay(Store)
         /\ UNCHANGED <<undos, redos>>
         /\ Called("redo", <<>>, except_IndexError("IndexError"), None, FALSE)
    ELSE replayed(Last(redos), Perform(Last(redos), Store))

\* Drawing.hide_layer(index, axis)
hide_layer(index, axis) ==
    /\ Stay(update_hidden_layers(Store, axis,
           SortedSet(SeqToSet(hidden_layers_by_axis[axis + 1]) \cup {index})))
    /\ UNCHANGED <<undos, redos>>
    /\ Called("hide_layer", <<>>, NoExc, None, FALSE)

\* Drawing.show_layer(index, axis)
show_layer(index, axis) ==
    /\ Stay(update_hidden_layers(Store, axis,
           SortedSet(SeqToSet(hidden_layers_by_axis[axis + 1]) \ {index})))
    /\ UNCHANGED <<undos, redos>>
    /\ Called("show_layer", <<>>, NoExc, None, FALSE)

\* Drawing.toggle_layer(index, axis)
toggle_layer(index, axis) ==
    IF index \notin SeqToSet(hidden_layers_by_axis[axis + 1])
    THEN hide_layer(index, axis)
    ELSE show_layer(index, axis)

\* Drawing.move_cursor(dx, dy, dz) as the layer-switching callers use it
MoveCursor(dx, dy, dz) ==
    LET r == move_cursor(Store, dx, dy, dz)
    IN /\ Stay(r.D)
       /\ UNCHANGED <<undos, redos>>
       /\ Called("move_cursor", <<>>, r.exc, None, FALSE)

\* Drawing.set_cursor(x, y, z) with the component of one axis given, the others None
SetCursor(axis, pos) ==
    /\ Stay(set_cursor_axis(Store, axis, pos))
    /\ UNCHANGED <<undos, redos>>
    /\ Called("set_cursor", <<>>, NoExc, None, FALSE)

\* render.render_view: reads drawing.data, uploads the dirty box and resets it
render_view ==
    LET r == GetData(Store)
    IN /\ Stay(IF r.exc = NoExc THEN [r.D EXCEPT !.dirty = None] ELSE r.D)
       /\ UNCHANGED <<undos, redos>>
       /\ Called("render_view", <<>>, r.exc, None, FALSE)

-----------------------------------------------------------------------------
(* view.py: DrawingView *)

\* np.ma.masked as the value of a cell of a masked array
Masked == -1

\* the masked array Drawing._get_masked_data builds over the cells for hidden layers hid
masked_data(arr, sh, hid) ==
    [p \in Coords(sh) |-> IF IsMasked(sh, hid, p) THEN Masked ELSE arr[p]]

\* shape of the array DrawingView._get_data returns
rotated_shape(sh, rot) ==
    LET s1 == IF rot[3] # 0 THEN Rot90Shape(sh, rot[3], 0, 1) ELSE sh
        s2 == IF rot[1] # 0 THEN Rot90Shape(s1, rot[1], 1, 2) ELSE s1
    IN IF rot[2] # 0 THEN Rot90Shape(s2, rot[2], 2, 0) ELSE s2

\* DrawingView._get_data: the array turned by rz in plane (0, 1), rx in (1, 2), ry in (2, 0)
rotated(arr, sh, rot) ==
    LET s1 == IF rot[3] # 0 THEN Rot90Shape(sh, rot[3], 0, 1) ELSE sh
        s2 == IF rot[1] # 0 THEN Rot90Shape(s1, rot[1], 1, 2) ELSE s1
        a1 == IF rot[3] # 0 THEN Rot90(arr, sh, rot[3], 0, 1) ELSE arr
        a2 == IF rot[1] # 0 THEN Rot90(a1, s1, rot[1], 1, 2) ELSE a1
    IN IF rot[2] # 0 THEN Rot90(a2, s2, rot[2], 2, 0) ELSE a2

\* math.cos / math.sin of k quarter turns (int() drops what floating point leaves of a zero)
Cos4(k) == <<1, 0, -1, 0>>[(k % 4) + 1]
Sin4(k) == <<0, 1, 0, -1>>[(k % 4) + 1]

\* a rotation by k quarter turns the other way round
rotate_around_forward(v, u, k) ==
    LET ct == Cos4(k)
        st == Sin4(k)
        dt == (u[1] * v[1] + u[2] * v[2] + u[3] * v[3]) * (1 - ct)
    IN <<u[1] * dt + v[1] * ct + (-u[3] * v[2] + u[2] * v[3]) * st,
         u[2] * dt + v[2] * ct + (u[3] * v[1] - u[1] * v[3]) * st,
         u[3] * dt + v[3] * ct + (-u[2] * v[1] + u[1] * v[2]) * st>>

\* euclid3 Vector3.rotate_around(u, -k * math.pi/2) for a unit axis u
rotate_around(v, u, k) ==
    LET ct == Cos4(-k)
        st == Sin4(-k)
        dt == (u[1] * v[1] + u[2] * v[2] + u[3] * v[3]) * (1 - ct)
    IN <<u[1] * dt + v[1] * ct + (-u[3] * v[2] + u[2] * v[3]) * st,
         u[2] * dt + v[2] * ct + (u[3] * v[1] - u[1] * v[3]) * st,
         u[3] * dt + v[3] * ct + (-u[2] * v[1] + u[1] * v[2]) * st>>

\* DrawingView._get_direction
get_direction(rot) ==
    LET v1 == IF rot[2] # 0 THEN rotate_around(<<0, 0, 1>>, <<0, 1, 0>>, rot[2])
              ELSE <<0, 0, 1>>
        v2 == IF rot[1] # 0 THEN rotate_around(v1, <<1, 0, 0>>, rot[1]) ELSE v1
    IN IF rot[3] # 0 THEN rotate_around(v2, <<0, 0, 1>>, rot[3]) ELSE v2

\* the index counted from the far end of the view's first axis instead of its depth
get_index_first_axis(direction, vshape, cur) ==
    LET d == vshape[1]
    IN IF direction[1] # 0 THEN <<IF direction[1] = 1 THEN cur[1] ELSE d - cur[1] - 1>>
       ELSE IF direction[2] # 0 THEN <<IF direction[2] = 1 THEN cur[2] ELSE d - cur[2] - 1>>
       ELSE IF direction[3] # 0 THEN <<IF direction[3] = 1 THEN cur[3] ELSE d - cur[3] - 1>>
       ELSE None

\* DrawingView._get_index: <<index>>, or None when no branch returns
get_index(direction, vshape, cur) ==
    LET d == vshape[3]
    IN IF direction[1] # 0 THEN <<IF direction[1] = 1 THEN cur[1] ELSE d - cur[1] - 1>>
       ELSE IF direction[2] # 0 THEN <<IF direction[2] = 1 THEN cur[2] ELSE d - cur[2] - 1>>
       ELSE IF direction[3] # 0 THEN <<IF direction[3] = 1 THEN cur[3] ELSE d - cur[3] - 1>>
       ELSE None

\* DrawingView._get_axis: [abs(d) for d in direction].index(1)
get_axis(direction) ==
    CHOOSE a \in Axes :
        /\ direction[a + 1] \in {-1, 1}
        /\ \A b \in 0..(a - 1) : direction[b + 1] \notin {-1, 1}

\* the lru_cache(1) of DrawingView._get_data after a call with key (sh, rot): the entry
\* keeps the rotated view of the masked array that Drawing.data gave when it was made
looked_up(vc, sh, rot, hid) ==
    IF vc # <<>> /\ vc[1].shape = sh /\ vc[1].rotation = rot THEN vc
    ELSE <<[shape |-> sh, rotation |-> rot, hidden |-> hid]>>

\* what the array of cache entry e shows: it shares the cells with Drawing._data and
\* carries the mask it was built with
shown(e, arr) == rotated(masked_data(arr, e.shape, e.hidden), e.shape, e.rotation)

\* a read of the view that got r from self.drawing.data and returns ret
view_read(op, r, ret) ==
    /\ Stay(r.D)
    /\ UNCHANGED <<undos, redos, path, last_saved_version, rotation>>
    /\ UNCHANGED window_vars
    /\ IF r.exc # NoExc
       THEN /\ UNCHANGED view_cache
            /\ Recorded(op, <<>>, r.exc, None, FALSE, None)
       ELSE /\ view_cache' = looked_up(view_cache, shape, rotation, hidden_layers_by_axis)
            /\ Recorded(op, <<>>, NoExc, None, FALSE, ret)

\* DrawingView.data
view_data ==
    view_read("view_data", GetData(Store),
              <<shown(looked_up(view_cache, shape, rotation, hidden_layers_by_axis)[1], data)>>)

\* DrawingView.layer(): self.data[:, :, self.index], a 2D array over the view's size
view_layer ==
    LET vsh == rotated_shape(shape, rotation)
        arr == shown(looked_up(view_cache, shape, rotation, hidden_layers_by_axis)[1], data)
        index == get_index(get_direction(rotation), vsh, cursor)
    IN view_read("view_layer", GetData(Store),
                 IF index = None THEN None
                 ELSE <<[q \in (0..(vsh[1] - 1)) \X (0..(vsh[2] - 1)) |->
                           arr[<<q[1], q[2], index[1]>>]]>>)

\* DrawingView.index
view_index ==
    view_read("view_index", GetData(Store),
              get_index(get_direction(rotation), rotated_shape(shape, rotation), cursor))

\* whether save() has marked the drawing saved when it returns or raises exc
marks_saved_in_autosave(exc, auto) == exc = NoExc
marks_saved_before_writing(exc, auto) == ~auto

\* Drawing.save: the two assignments after to_ora, under `if not auto`
marks_saved(exc, auto) == exc = NoExc /\ ~auto

\* Drawing.save(path, auto); to_ora reads the layers through a new view, which takes the
\* place of the window's view in the lru_cache of _get_data, and save_ora writes the
\* archive, which the file system lets succeed (written) or fail with OSError
save(p, auto, written) ==
    LET target == IF p # NoPath THEN p ELSE path
        to_ora == target # NoPath /\ target.ext = ".ora"
        r == GetData(Store)
        exc == IF target = NoPath THEN "ValueError"
               ELSE IF target.ext # ".ora" THEN "ValueError"
               ELSE IF r.exc # NoExc THEN r.exc
               ELSE IF ~written THEN "OSError"
               ELSE NoExc
    IN /\ Stay(IF to_ora THEN r.D ELSE Store)
       /\ UNCHANGED <<undos, redos, rotation>>
       /\ UNCHANGED window_vars
       /\ view_cache' = IF to_ora /\ r.exc = NoExc THEN None ELSE view_cache
       /\ last_saved_version' = IF marks_saved(exc, auto) THEN version ELSE last_saved_version
       /\ path' = IF marks_saved(exc, auto) THEN target ELSE path
       /\ Recorded("save", [path |-> p, auto |-> auto], exc, None, FALSE, None)

\* Drawing.unsaved
unsaved == last_saved_version < version

\* constants.py: the quarter turns of the view as 3x3 matrices (rows of the 4x4 ones)
Rx90 == << <<1, 0, 0>>, <<0, 0, 1>>, <<0, -1, 0>> >>
Ry90 == << <<0, 0, -1>>, <<0, 1, 0>>, <<1, 0, 0>> >>
Rz90 == << <<0, 1, 0>>, <<-1, 0, 0>>, <<0, 0, 1>> >>
Eye == << <<1, 0, 0>>, <<0, 1, 0>>, <<0, 0, 1>> >>

\* np.matrix product
MatMul(A, B) ==
    [i \in 1..3 |-> [j \in 1..3 |-> A[i][1] * B[1][j] + A[i][2] * B[2][j] + A[i][3] * B[3][j]]]

\* `for _ in range(k): R *= M`
RECURSIVE Times(_, _, _)
Times(R, M, k) == IF k = 0 THEN R ELSE Times(MatMul(R, M), M, k - 1)

\* the rotation of DrawingView._get_untransform: rz turns by Rz90, then rx by Rx90, ry by Ry90
untransform_rotation(rot) == Times(Times(Times(Eye, Rz90, rot[3]), Rx90, rot[1]), Ry90, rot[2])

\* int() of half of q: truncation towards zero
IntHalf(q) == IF q >= 0 THEN q \div 2 ELSE -((-q) \div 2)

\* int() of the components of untransform @ (x, y, z, 1), untransform being T2 * R * T1 with
\* T1 = translation by minus half the view's shape and T2 = by half the drawing's shape;
\* computed on doubled coordinates, which are whole numbers
untransformed(p, vshape, dshape, rot) ==
    LET R == untransform_rotation(rot)
        q == [a \in 1..3 |-> 2 * p[a] - vshape[a]]
        t == [i \in 1..3 |-> R[i][1] * q[1] + R[i][2] * q[2] + R[i][3] * q[3] + dshape[i]]
    IN [i \in 1..3 |-> IntHalf(t[i])]

\* slice(*sorted([a, b]))
SortedSlice(a, b) == IF a <= b THEN Slice(a, b) ELSE Slice(b, a)

\* DrawingView.to_drawing_slice(rect, index): rect is [x0, y0, x1, y1], its top left and
\* bottom right corners
to_drawing_slice(rect, index, vshape, dshape, rot) ==
    LET d0 == untransformed(<<rect.x0, rect.y0, index>>, vshape, dshape, rot)
        d1 == untransformed(<<rect.x1, rect.y1, index + 1>>, vshape, dshape, rot)
    IN <<SortedSlice(d0[1], d1[1]), SortedSlice(d0[2], d1[2]), SortedSlice(d0[3], d1[3])>>

\* DrawingView._unrotate_array: -ry turns in plane (2, 0), -rx in (1, 2), -rz in (0, 1)
unrotated_shape(sh, rot) ==
    LET s1 == IF rot[2] # 0 THEN Rot90Shape(sh, rot[2], 2, 0) ELSE sh
        s2 == IF rot[1] # 0 THEN Rot90Shape(s1, rot[1], 1, 2) ELSE s1
    IN IF rot[3] # 0 THEN Rot90Shape(s2, rot[3], 0, 1) ELSE s2

unrotate_array(arr, sh, rot) ==
    LET s1 == IF rot[2] # 0 THEN Rot90Shape(sh, rot[2], 2, 0) ELSE sh
        s2 == IF rot[1] # 0 THEN Rot90Shape(s1, rot[1], 1, 2) ELSE s1
        a1 == IF rot[2] # 0 THEN Rot90(arr, sh, 4 - rot[2], 2, 0) ELSE arr
        a2 == IF rot[1] # 0 THEN Rot90(a1, s1, 4 - rot[1], 1, 2) ELSE a1
    IN IF rot[3] # 0 THEN Rot90(a2, s2, 4 - rot[3], 0, 1) ELSE a2

\* the rectangles inside a view of shape vshape, as [x0, y0, x1, y1] (x1, y1 exclusive)
ViewRects(vshape) ==
    {r \in [x0 : 0..vshape[1], y0 : 0..vshape[2], x1 : 0..vshape[1], y1 : 0..vshape[2]] :
        r.x0 < r.x1 /\ r.y0 < r.y1}

\* shape of overlay.data[rect.as_slice()] after data.reshape(*data.shape, 1)
RectShape(rect) == <<rect.x1 - rect.x0, rect.y1 - rect.y0, 1>>

\* DrawingView.modify_layer(index, rect, data, tool), called on a view whose data has been
\* read at this rotation (the renderer reads it for every frame): to_drawing_slice(rect)
\* is called without the index, so it takes self.index
modify_layer(index, rect, dat) ==
    /\ version < MaxVersion
    /\ view_cache = looked_up(view_cache, shape, rotation, hidden_layers_by_axis)
    /\ LET r == GetData(Store)
           args == [index |-> index, rect |-> rect, data |-> dat]
           vshape == rotated_shape(shape, rotation)
           own == get_index(get_direction(rotation), vshape, cursor)
       IN IF r.exc # NoExc \/ own = None
          THEN /\ Stay(r.D)
               /\ UNCHANGED <<undos, redos>>
               /\ Called("modify_layer", args, IF r.exc # NoExc THEN r.exc ELSE "TypeError",
                         None, FALSE)
          ELSE perform_edit(
                   LayerEdit_create(r.D, to_drawing_slice(rect, own[1], vshape, shape, rotation),
                                    unrotate_array(dat, RectShape(rect), rotation), version),
                   r.D, "modify_layer", args)

\* DrawingView.rotate(dx, dy, dz)
view_rotate(dx, dy, dz) ==
    /\ rotation' = <<(rotation[1] + dx) % 4, (rotation[2] + dy) % 4, (rotation[3] + dz) % 4>>
    /\ Stay(Store)
    /\ UNCHANGED <<undos, redos, path, last_saved_version, view_cache>>
    /\ UNCHANGED window_vars
    /\ Recorded("view_rotate", <<>>, NoExc, None, FALSE, None)

-----------------------------------------------------------------------------
(* window.py, stroke.py: a stroke from the mouse press to _finish_stroke *)

LEFT == "LEFT"
RIGHT == "RIGHT"
MIDDLE == "MIDDLE"

\* a handler or task of the window that leaves the drawing and the view alone
Handled(op, args, exc) ==
    /\ Stay(Store)
    /\ UNCHANGED <<undos, redos, path, last_saved_version, rotation, view_cache>>
    /\ Recorded(op, args, exc, None, FALSE, None)

\* the test a container with __len__ would get: true only while events wait in it
queue_nonempty(q) == q # None /\ q[1] # <<>>

\* `if self.mouse_event_queue:` a Queue has neither __bool__ nor __len__, so it is true as
\* soon as the attribute holds a Queue, empty or not
queue_exists(q) == q # None
queue_has_events(q) == q # None /\ q[1] # <<>>

\* the task a Future of the executor stands for: the function, the number of the stroke,
\* the tool (None once make_stroke has returned None) and how far make_stroke has come:
\* "submitted", "started", "returned" or "raised"
Task(fn, id, tool, state) == [fn |-> fn, id |-> id, tool |-> tool, state |-> state]

\* the no_imgui_events decorator: the handler is not called for an event the GUI claims
no_imgui_events(captured) == ~captured

\* one more entry in the record of what the strokes did
Logged(kind, id) == stroke_log' = Append(stroke_log, <<kind, id>>)

\* VoxpaintWindow.on_mouse_press(x, y, button, modifiers)
on_mouse_press(button, captured) ==
    /\ Handled("on_mouse_press", [button |-> button, captured |-> captured], NoExc)
    /\ IF no_imgui_events(captured) /\ ~queue_exists(mouse_event_queue)
          /\ button \in {LEFT, RIGHT}
       THEN LET tool == [color |-> IF button = LEFT THEN "foreground" ELSE "background",
                         rect |-> FALSE, finished |-> FALSE]
            IN /\ overlay_clears' = overlay_clears + 1
               /\ mouse_event_queue' = <<<<"mouse_down">>>>
               /\ tools' = tools + 1
               /\ stroke' = <<"pending">>
               /\ executor' = Append(executor, Task("make_stroke", tools + 1, <<tool>>, "submitted"))
               /\ stroke_tool' = <<tool>>
               /\ Logged("press", tools + 1)
       ELSE UNCHANGED window_vars

\* an event put into the queue of the stroke, if there is one
put_event(q, event) == IF q # None THEN <<Append(q[1], event)>> ELSE q

\* VoxpaintWindow.on_mouse_release
on_mouse_release ==
    /\ Handled("on_mouse_release", <<>>, NoExc)
    /\ mouse_event_queue' = IF queue_exists(mouse_event_queue)
                            THEN put_event(mouse_event_queue, "mouse_up")
                            ELSE mouse_event_queue
    /\ UNCHANGED <<stroke, stroke_tool, executor, overlay_clears, tools, stroke_log>>

\* VoxpaintWindow.on_mouse_drag with a button other than the middle one
on_mouse_drag ==
    /\ Handled("on_mouse_drag", <<>>,
               IF stroke # None /\ mouse_event_queue = None THEN "AttributeError" ELSE NoExc)
    /\ mouse_event_queue' = IF stroke # None
                            THEN put_event(mouse_event_queue, "mouse_drag")
                            ELSE mouse_event_queue
    /\ UNCHANGED <<stroke, stroke_tool, executor, overlay_clears, tools, stroke_log>>

\* the "abort" event make_stroke knows: a caller that holds the queue of the running
\* stroke puts it there
put_abort ==
    /\ queue_exists(mouse_event_queue)
    /\ Handled("put_abort", <<>>, NoExc)
    /\ mouse_event_queue' = put_event(mouse_event_queue, "abort")
    /\ UNCHANGED <<stroke, stroke_tool, executor, overlay_clears, tools, stroke_log>>

\* the event make_stroke goes on with after `event_queue.get()` and the loop that skips
\* what has piled up (tool.period is None): the last one in the queue
drained(events) == Last(events)

\* the executor once its running task has returned and the done callback has submitted
\* _finish_stroke with the Future
stroke_done(ex, result, state) ==
    Append(Tail(ex), Task("_finish_stroke", Head(ex).id, result, state))

\* stroke.make_stroke on the executor's thread, from one event_queue.get() to the next: the
\* first event starts the tool; later the events that piled up are skipped and the last
\* one is used; drew tells whether the tool's draw / finish left a rect behind
make_stroke(drew) ==
    /\ executor # <<>> /\ Head(executor).fn = "make_stroke"
    /\ queue_has_events(mouse_event_queue)
    /\ LET task == Head(executor)
           event == drained(mouse_event_queue[1])
           tool == [task.tool[1] EXCEPT !.rect = @ \/ drew,
                                        !.finished = (event = "mouse_up")]
       IN IF task.state = "submitted"
          THEN /\ mouse_event_queue' = <<Tail(mouse_event_queue[1])>>
               /\ UNCHANGED <<overlay_clears, tools, stroke_tool>>
               /\ IF Head(mouse_event_queue[1]) = "mouse_down"
                  THEN \* tool.start
                       /\ Handled("make_stroke", <<>>, NoExc)
                       /\ executor' = <<Task("make_stroke", task.id, task.tool, "started")>>
                                          \o Tail(executor)
                       /\ stroke' = <<"running">>
                       /\ Logged("start", task.id)
                  ELSE \* the assert fails and the Future holds the exception
                       /\ Handled("make_stroke", <<>>, "AssertionError")
                       /\ executor' = stroke_done(executor, task.tool, "raised")
                       /\ stroke' = <<"finished">>
                       /\ Logged("failed", task.id)
          ELSE /\ Handled("make_stroke", [event |-> event], NoExc)
               /\ mouse_event_queue' = <<<<>>>>
               /\ UNCHANGED <<overlay_clears, tools>>
               /\ IF event = "abort"
                  THEN \* return None
                       /\ executor' = stroke_done(executor, None, "returned")
                       /\ stroke' = <<"finished">>
                       /\ UNCHANGED stroke_tool
                       /\ Logged("abort", task.id)
                  ELSE IF event = "mouse_up"
                  THEN \* tool.finish; return tool
                       /\ executor' = stroke_done(executor, <<tool>>, "returned")
                       /\ stroke' = <<"finished">>
                       /\ stroke_tool' = IF stroke_tool = None THEN None ELSE <<tool>>
                       /\ Logged("finish", task.id)
                  ELSE IF event = "mouse_drag"
                  THEN \* tool.draw
                       /\ executor' = <<Task("make_stroke", task.id, <<tool>>, "started")>>
                                          \o Tail(executor)
                       /\ stroke_tool' = IF stroke_tool = None THEN None ELSE <<tool>>
                       /\ UNCHANGED stroke
                       /\ Logged("draw", task.id)
                  ELSE UNCHANGED <<executor, stroke, stroke_tool, stroke_log>>

\* a completion handler that takes every stroke for one that drew
has_rect_always(result) == TRUE

\* `if tool and tool.rect:` in _finish_stroke
has_rect(result) == result # None /\ result[1].rect

\* VoxpaintWindow._finish_stroke(stroke) on the executor's thread. stroke.result() raises
\* what make_stroke raised. With a rect the commit reads self.view.layer_index, which
\* DrawingView does not have, and what follows is not run. With the None of an aborted
\* stroke the window is reset before `tool.restore_last` raises.
finish_stroke ==
    /\ executor # <<>> /\ Head(executor).fn = "_finish_stroke"
    /\ executor' = Tail(executor)
    /\ stroke_tool' = None
    /\ UNCHANGED tools
    /\ Logged("commit", Head(executor).id)
    /\ LET result == Head(executor).tool
       IN IF Head(executor).state = "raised"
          THEN /\ Handled("_finish_stroke", <<>>, "AssertionError")
               /\ UNCHANGED <<mouse_event_queue, stroke, overlay_clears>>
          ELSE IF has_rect(result)
          THEN /\ Handled("_finish_stroke", [rect |-> TRUE], "AttributeError")
               /\ UNCHANGED <<mouse_event_queue, stroke, overlay_clears>>
          ELSE /\ Handled("_finish_stroke", [rect |-> FALSE],
                          IF result = None THEN "AttributeError" ELSE NoExc)
               /\ overlay_clears' = overlay_clears + 1
               /\ mouse_event_queue' = None
               /\ stroke' = None

-----------------------------------------------------------------------------
(* Two threads inside methods of one Drawing *)

\* the methods that change cells or hidden layers inside `with self.lock:` (_perform_edit,
\* undo, redo) and the renderer, which copies the dirty box inside `with drawing.lock:`
takes_lock(op) == op \in {"modify", "undo", "redo", "render_view"}

\* thread t enters method op: it takes the lock if the method has a `with self.lock:`,
\* waiting until the lock is free
enter(t, op) ==
    /\ calls[t] = None
    /\ takes_lock(op) => lock = None
    /\ lock' = IF takes_lock(op) THEN <<t>> ELSE lock
    /\ calls' = [calls EXCEPT ![t] = <<op>>]
    /\ Handled("enter", [thread |-> t, op |-> op], NoExc)
    /\ UNCHANGED window_vars
    /\ UNCHANGED overlay_vars
    /\ UNCHANGED cache_vars
    /\ UNCHANGED palette_overlay

\* thread t leaves the method it is in, giving back the lock if it holds it
leaves(t, op) ==
    /\ UNCHANGED overlay_vars
    /\ UNCHANGED cache_vars
    /\ UNCHANGED palette_overlay
    /\ calls[t] = <<op>>
    /\ calls' = [calls EXCEPT ![t] = None]
    /\ lock' = IF lock = <<t>> THEN None ELSE lock

-----------------------------------------------------------------------------
(* The Overlay, drawn to by two threads and uploaded by the renderer *)

OverlayCells == 0..(OverlayWidth - 1)

\* the non-empty rectangles inside the overlay, as <<x0, x1>> (x1 exclusive)
Rectangles == {r \in (0..OverlayWidth) \X (0..OverlayWidth) : r[1] < r[2]}

InRect(c, r) == r[1] <= c /\ c < r[2]

\* Rectangle.unite: the covering rectangle; uniting with None gives the rectangle itself
unite(r, other) ==
    IF other = None THEN r
    ELSE << IF r[1] < other[1][1] THEN r[1] ELSE other[1][1],
            IF r[2] > other[1][2] THEN r[2] ELSE other[1][2] >>

\* the value Overlay.clear and the drawing methods put into the cells of their rectangle
overlay_value(kind) == IF kind = "clear" THEN 0 ELSE 1

\* the methods of Overlay that change cells
OverlayWriters == {"clear", "blit"}

\* Overlay.clear / blit / draw_line / draw_rectangle, first half:
\* `with self.lock: self.data[...] = ...`, the lock being reentrant
overlay_write(t, kind, r) ==
    /\ overlay_ops < MaxOverlayOps
    /\ overlay_calls[t].at = "idle"
    /\ overlay_lock \in {None, <<t>>}
    /\ overlay_data' = [c \in OverlayCells |->
                            IF InRect(c, r) THEN overlay_value(kind) ELSE overlay_data[c]]
    /\ overlay_calls' = [overlay_calls EXCEPT
                            ![t] = [op |-> kind, at |-> "wrote", rect |-> <<r>>, seen |-> None]]
    /\ overlay_ops' = overlay_ops + 1
    /\ UNCHANGED <<overlay_dirty, overlay_lock, overlay_texture, frame>>
    /\ UNCHANGED drawing_vars

\* second half, outside the lock: `self.dirty = rect.unite(self.dirty)` reads self.dirty ...
read_dirty(t) ==
    /\ overlay_calls[t].at = "wrote"
    /\ overlay_calls' = [overlay_calls EXCEPT ![t].at = "read", ![t].seen = overlay_dirty]
    /\ UNCHANGED <<overlay_data, overlay_dirty, overlay_lock, overlay_texture, overlay_ops, frame>>
    /\ UNCHANGED drawing_vars

\* ... and assigns the united rectangle
write_dirty(t) ==
    /\ overlay_calls[t].at = "read"
    /\ overlay_dirty' = <<unite(overlay_calls[t].rect[1], overlay_calls[t].seen)>>
    /\ overlay_calls' = [overlay_calls EXCEPT ![t] = NoCall(overlay_calls[t].op)]
    /\ UNCHANGED <<overlay_data, overlay_lock, overlay_texture, overlay_ops, frame>>
    /\ UNCHANGED drawing_vars

\* make_stroke, ephemeral tool: `with view.overlay.lock:` around clear and tool.draw
hold_lock(t) ==
    /\ overlay_ops < MaxOverlayOps
    /\ overlay_calls[t].at = "idle"
    /\ overlay_lock = None
    /\ overlay_lock' = <<t>>
    /\ overlay_ops' = overlay_ops + 1
    /\ UNCHANGED <<overlay_data, overlay_dirty, overlay_texture, overlay_calls, frame>>
    /\ UNCHANGED drawing_vars

\* the end of that block
release_lock(t) ==
    /\ overlay_calls[t].at = "idle"
    /\ overlay_lock = <<t>>
    /\ overlay_lock' = None
    /\ UNCHANGED <<overlay_data, overlay_dirty, overlay_texture, overlay_calls, overlay_ops, frame>>
    /\ UNCHANGED drawing_vars

\* a lock that any thread gets at once, held or not
acquire_anyway(lk, t) == TRUE

\* overlay.lock.acquire(timeout=0.01) by thread t: whether it gets the lock before the
\* timeout, which it does not while another thread keeps it
acquire(lk, t) == lk \in {None, <<t>>}

\* a mutant of dirty_after_frame: `overlay.dirty = None` outside the if block
dirty_after_frame_reset(uploaded, d) == None

\* overlay.dirty at the end of the frame: reset only inside the block that uploads
dirty_after_frame(uploaded, d) == IF uploaded THEN None ELSE d

\* render_view, `if overlay.dirty and overlay.lock.acquire(timeout=0.01):`
render_begin(t) ==
    /\ overlay_calls[t].at = "idle"
    /\ UNCHANGED <<overlay_data, overlay_texture, overlay_ops>>
    /\ UNCHANGED drawing_vars
    /\ IF overlay_dirty = None
       THEN /\ frame' = "clean"
            /\ UNCHANGED <<overlay_dirty, overlay_lock, overlay_calls>>
       ELSE IF acquire(overlay_lock, t)
       THEN /\ overlay_lock' = <<t>>
            /\ overlay_calls' = [overlay_calls EXCEPT ![t] =
                    [op |-> "render", at |-> "acquired", rect |-> None, seen |-> None]]
            /\ UNCHANGED <<overlay_dirty, frame>>
       ELSE /\ frame' = "gave_up"
            /\ overlay_dirty' = dirty_after_frame(FALSE, overlay_dirty)
            /\ UNCHANGED <<overlay_lock, overlay_calls>>

\* `rect = overlay.dirty`
render_read(t) ==
    /\ overlay_calls[t].at = "acquired"
    /\ overlay_calls' = [overlay_calls EXCEPT ![t].at = "took", ![t].rect = overlay_dirty]
    /\ UNCHANGED <<overlay_data, overlay_dirty, overlay_lock, overlay_texture, overlay_ops, frame>>
    /\ UNCHANGED drawing_vars

\* glTextureSubImage2D of overlay.data[rect]; overlay.dirty = None; overlay.lock.release()
render_upload(t) ==
    /\ overlay_calls[t].at = "took"
    /\ overlay_texture' = [c \in OverlayCells |->
            IF InRect(c, overlay_calls[t].rect[1]) THEN overlay_data[c] ELSE overlay_texture[c]]
    /\ overlay_dirty' = dirty_after_frame(TRUE, overlay_dirty)
    /\ overlay_lock' = None
    /\ overlay_calls' = [overlay_calls EXCEPT ![t] = NoCall("render")]
    /\ frame' = "uploaded"
    /\ UNCHANGED <<overlay_data, overlay_ops>>
    /\ UNCHANGED drawing_vars

-----------------------------------------------------------------------------
(* The overlays of the views, kept by the lru_cache(3) of DrawingView._get_overlay *)

\* position of the entry for (view, size) in the cache, or 0
cache_position(cache, v, size) ==
    IF \E i \in 1..Len(cache) : cache[i].view = v /\ cache[i].size = size
    THEN CHOOSE i \in 1..Len(cache) : cache[i].view = v /\ cache[i].size = size
    ELSE 0

\* functools.lru_cache(maxsize): a hit makes the entry the most recent one; a miss adds the
\* new entry and drops the least recently used one when the cache is full
lru_cache(cache, v, size, fresh, maxsize) ==
    LET i == cache_position(cache, v, size)
    IN IF i # 0
       THEN Append(SubSeq(cache, 1, i - 1) \o SubSeq(cache, i + 1, Len(cache)), cache[i])
       ELSE LET added == Append(cache, [view |-> v, size |-> size, overlay |-> fresh])
            IN IF Len(added) > maxsize THEN Tail(added) ELSE added

\* DrawingView.overlay of view v: self._get_overlay(self.shape[:2]); the caller draws into
\* the Overlay it gets or only looks at it
view_overlay(v, draws) ==
    /\ cache_position(overlay_cache, v, view_sizes[v]) = 0 => overlays_made < MaxOverlays
    /\ LET cache == lru_cache(overlay_cache, v, view_sizes[v], overlays_made + 1,
                              OverlayCacheSize)
           overlay == Last(cache).overlay
       IN /\ overlay_cache' = cache
          /\ overlays_made' = IF overlay > overlays_made THEN overlay ELSE overlays_made
          /\ overlays_drawn' = IF draws THEN overlays_drawn \cup {overlay} ELSE overlays_drawn
          /\ got' = <<[view |-> v, overlay |-> overlay, before |-> in_use[v],
                       had |-> in_use[v] \in overlays_drawn,
                       drawn |-> overlay \in overlays_drawn]>>
          /\ in_use' = [in_use EXCEPT ![v] = overlay]
    /\ UNCHANGED view_sizes
    /\ UNCHANGED <<data, shape, hidden_layers_by_axis, palette, cursor, version, undos, redos,
                   dirty, masked_cached, path, last_saved_version, rotation, view_cache,
                   returned, lastOp, lastArgs, raised, completed, lastRegion, before, hist,
                   lock, calls>>
    /\ UNCHANGED window_vars
    /\ UNCHANGED palette_overlay
    /\ UNCHANGED overlay_vars
    /\ steps' = steps + 1

\* the sizes of the layers of a 2x1x1 drawing, seen from its three sides
ViewSizes == {<<2, 1>>, <<1, 2>>, <<1, 1>>}

\* view v is turned (DrawingView.rotate) so that its layers have another size
view_turned(v, size) ==
    /\ size # view_sizes[v]
    /\ view_sizes' = [view_sizes EXCEPT ![v] = size]
    /\ in_use' = [in_use EXCEPT ![v] = 0]
    /\ got' = None
    /\ UNCHANGED <<overlay_cache, overlays_made, overlays_drawn>>
    /\ UNCHANGED <<data, shape, hidden_layers_by_axis, palette, cursor, version, undos, redos,
                   dirty, masked_cached, path, last_saved_version, rotation, view_cache,
                   returned, lastOp, lastArgs, raised, completed, lastRegion, before, hist,
                   lock, calls>>
    /\ UNCHANGED window_vars
    /\ UNCHANGED palette_overlay
    /\ UNCHANGED overlay_vars
    /\ steps' = steps + 1

-----------------------------------------------------------------------------
(* Inputs *)

Amounts == {-1, 1, 2}
StartIndexes == {1, PaletteSize - 1}
NewColors == {Color(<<1, 2, 3, 255>>)}
ColorRuns == UNION {[1..k -> NewColors] : k \in 1..MaxRun}
Steps == {<<1, 0, 0>>, <<-1, 0, 0>>, <<0, 1, 0>>, <<0, -1, 0>>, <<0, 0, 1>>, <<0, 0, -1>>}

\* calls are explored up to a given number per behaviour; each is made while no other
\* call is under way, so the lock is free before and after it
Ready(max) ==
    /\ steps < max
    /\ UNCHANGED <<lock, calls>>
    /\ UNCHANGED overlay_vars
    /\ UNCHANGED cache_vars
    /\ UNCHANGED palette_overlay

Next ==
    \/ /\ Ready(MaxSteps)
       /\ \E slc \in Regions(shape) :
            \E dat \in [Coords(SliceShape(slc)) -> DataValues] : modify(slc, dat)
    \/ /\ Ready(MaxSteps)
       /\ \E amount \in Amounts, axis \in Axes : rotate(amount, axis)
    \/ /\ Ready(MaxSteps)
       /\ \E axis \in Axes : flip(axis)
    \/ /\ Ready(MaxSteps)
       /\ \E start_i \in StartIndexes, colors \in ColorRuns : change_colors(start_i, colors)
    \/ /\ Ready(MaxSteps)
       /\ \E axis \in Axes : \E i, j \in 0..(shape[axis + 1] - 1) :
            i # j /\ move_layer(i, j, axis)
    \/ /\ Ready(MaxSteps)
       /\ \E axis \in Axes, n \in 1..MaxCount : \E index \in 0..shape[axis + 1] :
            insert_layers(index, axis, n)
    \/ /\ Ready(MaxSteps)
       /\ \E axis \in Axes, n \in 1..MaxCount : \E index \in 0..(shape[axis + 1] - 1) :
            delete_layers(index, axis, n)
    \/ Ready(MaxSteps) /\ undo
    \/ Ready(MaxSteps) /\ redo
    \/ /\ Ready(MaxSteps)
       /\ \E axis \in Axes : \E index \in 0..(shape[axis + 1] - 1) : toggle_layer(index, axis)
    \/ /\ Ready(MaxSteps)
       /\ \E d \in Steps : MoveCursor(d[1], d[2], d[3])
    \/ Ready(MaxSteps) /\ render_view

Spec == Init /\ [][Next]_vars

\* the layer edits on a one-cell drawing, with undo and redo
JournalInit == Init /\ shape = <<1, 1, 1>>

JournalNext ==
    \/ /\ Ready(MaxJournalSteps)
       /\ \E axis \in Axes, n \in 1..MaxCount : \E index \in 0..shape[axis + 1] :
            insert_layers(index, axis, n)
    \/ /\ Ready(MaxJournalSteps)
       /\ \E axis \in Axes, n \in 1..MaxCount : \E index \in 0..(shape[axis + 1] - 1) :
            delete_layers(index, axis, n)
    \/ Ready(MaxJournalSteps) /\ undo
    \/ Ready(MaxJournalSteps) /\ redo

JournalSpec == JournalInit /\ [][JournalNext]_vars

\* the same calls, one more of them: an undo after an undo that failed
StampInit == JournalInit

StampNext ==
    \/ /\ Ready(MaxStampSteps)
       /\ \E axis \in Axes, n \in 1..MaxCount : \E index \in 0..shape[axis + 1] :
            insert_layers(index, axis, n)
    \/ /\ Ready(MaxStampSteps)
       /\ \E axis \in Axes, n \in 1..MaxCount : \E index \in 0..(shape[axis + 1] - 1) :
            delete_layers(index, axis, n)
    \/ Ready(MaxStampSteps) /\ undo
    \/ Ready(MaxStampSteps) /\ redo

StampSpec == StampInit /\ [][StampNext]_vars

\* drawings as from_ora loads them: hidden_layers holds, per axis, layers of the store
LayerShapes == {<<1, 1, 1>>, <<2, 1, 1>>}
HiddenSets(sh) ==
    {<<SortedSet(h0), SortedSet(h1), SortedSet(h2)>> :
        h0 \in SUBSET (0..(sh[1] - 1)), h1 \in SUBSET (0..(sh[2] - 1)),
        h2 \in SUBSET (0..(sh[3] - 1))}
CursorPositions == {-1, 0, 1, 2}

\* a drawing loaded with some of its layers hidden
LayerInit == \E sh \in LayerShapes : \E hid \in HiddenSets(sh) :
                 Opened(LoadedPath, <<0, 0, 0>>) /\ Constructed(sh, hid)

\* the layer operations, the cursor, undo and redo
LayerNext ==
    \/ /\ Ready(MaxLayerSteps)
       /\ \E amount \in Amounts, axis \in Axes : rotate(amount, axis)
    \/ /\ Ready(MaxLayerSteps)
       /\ \E axis \in Axes : flip(axis)
    \/ /\ Ready(MaxLayerSteps)
       /\ \E axis \in Axes : \E i, j \in 0..(shape[axis + 1] - 1) :
            i # j /\ move_layer(i, j, axis)
    \/ /\ Ready(MaxLayerSteps)
       /\ \E axis \in Axes, n \in 1..MaxCount : \E index \in 0..shape[axis + 1] :
            insert_layers(index, axis, n)
    \/ /\ Ready(MaxLayerSteps)
       /\ \E axis \in Axes, n \in 1..MaxCount : \E index \in 0..(shape[axis + 1] - 1) :
            delete_layers(index, axis, n)
    \/ Ready(MaxLayerSteps) /\ undo
    \/ Ready(MaxLayerSteps) /\ redo
    \/ /\ Ready(MaxLayerSteps)
       /\ \E axis \in Axes : \E index \in 0..(shape[axis + 1] - 1) : toggle_layer(index, axis)
    \/ /\ Ready(MaxLayerSteps)
       /\ \E d \in Steps : MoveCursor(d[1], d[2], d[3])
    \/ /\ Ready(MaxLayerSteps)
       /\ \E axis \in Axes, pos \in CursorPositions : SetCursor(axis, pos)

LayerSpec == LayerInit /\ [][LayerNext]_vars

\* views as Drawing.get_view(rotation) makes them, on a drawing of three different sizes
Rotations == (0..3) \X (0..3) \X (0..3)
IndexShapes == {<<1, 2, 3>>}
Turns == {<<1, 0, 0>>, <<-1, 0, 0>>, <<0, 1, 0>>, <<0, -1, 0>>, <<0, 0, 1>>, <<0, 0, -1>>}
Jumps == {<<d, 0, 0>> : d \in {-1, 1}} \cup {<<0, d, 0>> : d \in {-1, 1}}
            \cup {<<0, 0, d>> : d \in {-2, -1, 1, 2}}

IndexInit == \E sh \in IndexShapes, rot \in Rotations :
                 Opened(LoadedPath, rot) /\ Constructed(sh, <<<<>>, <<>>, <<>>>>)

\* turning the view, moving the cursor, reading the layer index
IndexNext ==
    \/ Ready(MaxViewSteps) /\ \E t \in Turns : view_rotate(t[1], t[2], t[3])
    \/ Ready(MaxViewSteps) /\ \E d \in Jumps : MoveCursor(d[1], d[2], d[3])
    \/ Ready(MaxViewSteps) /\ view_index

IndexSpec == IndexInit /\ [][IndexNext]_vars

\* turning the view, moving the cursor, reading the current layer
SliceNext ==
    \/ Ready(MaxViewSteps) /\ \E t \in Turns : view_rotate(t[1], t[2], t[3])
    \/ Ready(MaxViewSteps) /\ \E d \in Jumps : MoveCursor(d[1], d[2], d[3])
    \/ Ready(MaxViewSteps) /\ view_layer

SliceSpec == IndexInit /\ [][SliceNext]_vars

\* a view on a two-layer drawing and the calls that write into the array Drawing._data names
\* or change the hidden layers without binding _data to another array
ViewRotations == {<<0, 0, 0>>, <<0, 0, 1>>}
QuarterTurns == {<<0, 0, 1>>, <<1, 0, 0>>}

ViewInit == \E rot \in ViewRotations :
                Opened(LoadedPath, rot) /\ Constructed(<<2, 1, 1>>, <<<<>>, <<>>, <<>>>>)

ViewNext ==
    \/ Ready(MaxViewSteps) /\ view_data
    \/ Ready(MaxViewSteps) /\ \E t \in QuarterTurns : view_rotate(t[1], t[2], t[3])
    \/ /\ Ready(MaxViewSteps)
       /\ \E axis \in Axes : \E index \in 0..(shape[axis + 1] - 1) : toggle_layer(index, axis)
    \/ /\ Ready(MaxViewSteps)
       /\ \E slc \in Regions(shape) :
            \E dat \in [Coords(SliceShape(slc)) -> DataValues] : modify(slc, dat)
    \/ Ready(MaxViewSteps) /\ undo
    \/ Ready(MaxViewSteps) /\ redo

ViewSpec == ViewInit /\ [][ViewNext]_vars

\* a view that is turned, read and painted into
PaintTurns == (0..3) \X (0..3) \X (0..3)

PaintInit == Opened(LoadedPath, <<0, 0, 0>>) /\ Constructed(<<2, 1, 1>>, <<<<>>, <<>>, <<>>>>)

PaintNext ==
    \/ Ready(MaxPaintSteps) /\ view_data
    \/ Ready(MaxPaintSteps) /\ \E t \in PaintTurns : view_rotate(t[1], t[2], t[3])
    \/ /\ Ready(MaxPaintSteps)
       /\ \E index \in 0..(rotated_shape(shape, rotation)[3] - 1) :
            \E rect \in ViewRects(rotated_shape(shape, rotation)) :
              \E dat \in [Coords(RectShape(rect)) -> DataValues] : modify_layer(index, rect, dat)

PaintSpec == PaintInit /\ [][PaintNext]_vars

\* a drawing that is new (no path), loaded from an .ora file or loaded from a .png file,
\* edited and saved
OpenedPaths == {NoPath, LoadedPath, Path("drawing", ".png")}
SavePaths == {NoPath, Path("copy", ".ora"), Path("copy", ".png"), Path("cache/0", ".ora")}

SaveInit == \E p \in OpenedPaths :
                Opened(p, <<0, 0, 0>>) /\ Constructed(<<1, 1, 1>>, <<<<>>, <<>>, <<>>>>)

SaveNext ==
    \/ /\ Ready(MaxSaveSteps)
       /\ \E p \in SavePaths, auto \in BOOLEAN, written \in BOOLEAN : save(p, auto, written)
    \/ /\ Ready(MaxSaveSteps)
       /\ \E slc \in Regions(shape) :
            \E dat \in [Coords(SliceShape(slc)) -> DataValues] : modify(slc, dat)
    \/ Ready(MaxSaveSteps) /\ undo
    \/ Ready(MaxSaveSteps) /\ redo
    \/ Ready(MaxSaveSteps) /\ view_data

SaveSpec == SaveInit /\ [][SaveNext]_vars

\* the mouse handlers of the window and the tasks of its executor
Buttons == {LEFT, RIGHT, MIDDLE}

StrokeInit == Opened(LoadedPath, <<0, 0, 0>>) /\ Constructed(<<1, 1, 1>>, <<<<>>, <<>>, <<>>>>)

StrokeNext ==
    \/ /\ Ready(MaxStrokeSteps)
       /\ \E button \in Buttons, captured \in BOOLEAN : on_mouse_press(button, captured)
    \/ Ready(MaxStrokeSteps) /\ on_mouse_release
    \/ Ready(MaxStrokeSteps) /\ on_mouse_drag
    \/ Ready(MaxStrokeSteps) /\ put_abort
    \/ Ready(MaxStrokeSteps) /\ \E drew \in BOOLEAN : make_stroke(drew)
    \/ Ready(MaxStrokeSteps) /\ finish_stroke

StrokeSpec == StrokeInit /\ [][StrokeNext]_vars

\* the same window with an executor that always goes on: the mouse handlers are called at
\* most MaxStrokeSteps times altogether, the tasks of the executor run whenever they can
MaxWorkerSteps == 2 * MaxStrokeSteps

StrokeFairNext ==
    \/ /\ Ready(MaxStrokeSteps)
       /\ \E button \in Buttons, captured \in BOOLEAN : on_mouse_press(button, captured)
    \/ Ready(MaxStrokeSteps) /\ on_mouse_release
    \/ Ready(MaxStrokeSteps) /\ on_mouse_drag
    \/ Ready(MaxStrokeSteps) /\ put_abort
    \/ Ready(MaxWorkerSteps) /\ \E drew \in BOOLEAN : make_stroke(drew)
    \/ Ready(MaxWorkerSteps) /\ finish_stroke

StrokeFairSpec ==
    /\ StrokeInit /\ [][StrokeFairNext]_vars
    /\ WF_vars(Ready(MaxWorkerSteps) /\ \E drew \in BOOLEAN : make_stroke(drew))
    /\ WF_vars(Ready(MaxWorkerSteps) /\ finish_stroke)

\* two threads that call the writing methods of one Drawing and render it; a method does
\* its writes at the step that leaves it
LockedOps == {"modify", "undo", "redo", "toggle_layer", "render_view"}

LockInit == Opened(LoadedPath, <<0, 0, 0>>) /\ Constructed(<<1, 1, 1>>, <<<<>>, <<>>, <<>>>>)

LockNext ==
    \/ /\ steps < MaxLockSteps
       /\ \E t \in Threads, op \in LockedOps : enter(t, op)
    \/ /\ steps < MaxLockSteps
       /\ \E t \in Threads : leaves(t, "modify")
       /\ \E slc \in Regions(shape) :
            \E dat \in [Coords(SliceShape(slc)) -> DataValues] : modify(slc, dat)
    \/ steps < MaxLockSteps /\ (\E t \in Threads : leaves(t, "undo")) /\ undo
    \/ steps < MaxLockSteps /\ (\E t \in Threads : leaves(t, "redo")) /\ redo
    \/ /\ steps < MaxLockSteps
       /\ \E t \in Threads : leaves(t, "toggle_layer")
       /\ \E axis \in Axes : \E index \in 0..(shape[axis + 1] - 1) : toggle_layer(index, axis)
    \/ steps < MaxLockSteps /\ (\E t \in Threads : leaves(t, "render_view")) /\ render_view

LockSpec == LockInit /\ [][LockNext]_vars

\* the Overlay of one view: both threads draw and clear, the main thread renders
OverlayInit == LockInit

OverlayNext ==
    \/ \E t \in Threads, kind \in OverlayWriters, r \in Rectangles : overlay_write(t, kind, r)
    \/ \E t \in Threads : read_dirty(t)
    \/ \E t \in Threads : write_dirty(t)
    \/ hold_lock("executor")
    \/ release_lock("executor")
    \/ render_begin("ui")
    \/ render_read("ui")
    \/ render_upload("ui")

OverlaySpec == OverlayInit /\ [][OverlayNext]_vars

\* every frame calls render_view, and a thread inside a method or a lock block goes on
OverlayFairSpec ==
    /\ OverlaySpec
    /\ WF_vars(render_begin("ui"))
    /\ WF_vars(render_read("ui"))
    /\ WF_vars(render_upload("ui"))
    /\ WF_vars(release_lock("executor"))
    /\ \A t \in Threads : WF_vars(read_dirty(t)) /\ WF_vars(write_dirty(t))

\* several drawings are open; the overlays of their views are asked for in any order
CacheInit == Opened(LoadedPath, <<0, 0, 0>>) /\ Constructed(<<2, 1, 1>>, <<<<>>, <<>>, <<>>>>)

CacheNext ==
    \/ steps < MaxCacheSteps /\ \E v \in OpenViews, draws \in BOOLEAN : view_overlay(v, draws)
    \/ steps < MaxCacheSteps /\ \E v \in OpenViews, size \in ViewSizes : view_turned(v, size)

CacheSpec == CacheInit /\ [][CacheNext]_vars

-----------------------------------------------------------------------------
(* Drawing.modify, undo and redo statement by statement, on two threads *)

\* where thread t is inside a method: the method, the statement it has reached, the edit it
\* holds, the cells its diff was computed from and the version it has read
Local(op, pc, e, base, seen) ==
    <<[op |-> op, pc |-> pc, edit |-> e, base |-> base, seen |-> seen]>>

At(t, op, pc) == calls[t] # None /\ calls[t][1].op = op /\ calls[t][1].pc = pc

\* one statement of thread t: the thread goes on to `to` (None when the method is left)
Statement(t, to, D, ver, un, re, name, exc) ==
    /\ calls' = [calls EXCEPT ![t] = to]
    /\ SetStore(D)
    /\ version' = ver
    /\ undos' = un
    /\ redos' = re
    /\ Recorded(name, [thread |-> t], exc, None, FALSE, None)
    /\ UNCHANGED <<hist, lock, path, last_saved_version, rotation, view_cache>>
    /\ UNCHANGED window_vars
    /\ UNCHANGED overlay_vars
    /\ UNCHANGED cache_vars
    /\ UNCHANGED palette_overlay

\* thread t goes from statement pc to statement to without a change of its locals
Goes(t, to) == <<[calls[t][1] EXCEPT !.pc = to]>>

\* Drawing.modify: edit = LayerEdit.create(self, slc, data, tool)
commit_create(t, slc, dat) ==
    /\ calls[t] = None
    /\ version < MaxVersion
    /\ LET r == GetData(Store)
       IN Statement(t, Local("modify", "created",
                              LayerEdit_create(r.D, slc, dat, version), data, version),
                    r.D, version, undos, redos, "LayerEdit.create", NoExc)

\* Drawing._perform_edit: assert self.version == edit.version
commit_assert(t) ==
    /\ At(t, "modify", "created")
    /\ IF version = calls[t][1].edit.version
       THEN Statement(t, Goes(t, "asserted"), Store, version, undos, redos, "assert", NoExc)
       ELSE Statement(t, None, Store, version, undos, redos, "assert", "AssertionError")

\* Drawing._perform_edit: with self.lock: slc = edit.perform(self)
commit_perform(t) ==
    /\ At(t, "modify", "asserted")
    /\ lock = None
    /\ LET r == Perform(calls[t][1].edit, Store)
       IN Statement(t, Goes(t, "performed"), r.D, version, undos, redos, "edit.perform", r.exc)

\* Drawing._perform_edit: self.dirty = slice_union(slc, self.dirty, self.shape)
commit_dirty(t) ==
    /\ At(t, "modify", "performed")
    /\ Statement(t, Goes(t, "dirtied"), with_dirty(Store, calls[t][1].edit.slc),
                 version, undos, redos, "dirty", NoExc)

\* self.version += 1, the read
version_read(t, op, from) ==
    /\ At(t, op, from)
    /\ Statement(t, <<[calls[t][1] EXCEPT !.pc = "read", !.seen = version]>>,
                 Store, version, undos, redos, "version.read", NoExc)

\* self.version += 1, the write; redo() returns after it
version_write(t, op) ==
    /\ At(t, op, "read")
    /\ Statement(t, IF op = "redo" THEN None ELSE Goes(t, "counted"),
                 Store, calls[t][1].seen + 1, undos, redos, "version.write", NoExc)

\* Drawing._perform_edit: self.undos.append(edit)
commit_append(t) ==
    /\ At(t, "modify", "counted")
    /\ Statement(t, Goes(t, "appended"), Store, version, Append(undos, calls[t][1].edit),
                 redos, "undos.append", NoExc)

\* Drawing._perform_edit: self.redos.clear()
commit_clear(t) ==
    /\ At(t, "modify", "appended")
    /\ Statement(t, None, Store, version, undos, redos_clear(redos), "redos.clear", NoExc)

\* Drawing.undo: edit = self.undos.pop(); an empty stack raises the IndexError that undo
\* swallows
undo_pop(t) ==
    /\ calls[t] = None
    /\ IF undos = <<>>
       THEN Statement(t, None, Store, version, undos, redos, "undos.pop",
                      except_IndexError("IndexError"))
       ELSE Statement(t, Local("undo", "popped", Last(undos), data, version),
                      Store, version, Front(undos), redos, "undos.pop", NoExc)

\* Drawing.undo: assert self.version == edit.version + 1
undo_assert(t) ==
    /\ At(t, "undo", "popped")
    /\ IF version = calls[t][1].edit.version + 1
       THEN Statement(t, Goes(t, "asserted"), Store, version, undos, redos, "assert", NoExc)
       ELSE Statement(t, None, Store, version, undos, redos, "assert", "AssertionError")

\* Drawing.undo: with self.lock: slc = edit.revert(self)
undo_revert(t) ==
    /\ At(t, "undo", "asserted")
    /\ lock = None
    /\ LET r == Revert(calls[t][1].edit, Store)
       IN Statement(t, Goes(t, "reverted"), r.D, version, undos, redos, "edit.revert", r.exc)

\* Drawing.undo: self.redos.append(edit)
undo_append(t) ==
    /\ At(t, "undo", "reverted")
    /\ Statement(t, Goes(t, "appended"), Store, version, undos,
                 Append(redos, calls[t][1].edit), "redos.append", NoExc)

\* Drawing.undo: self.dirty = slice_union(...); self.version = edit.version
undo_version(t) ==
    /\ At(t, "undo", "appended")
    /\ Statement(t, None, with_dirty(Store, calls[t][1].edit.slc),
                 reverted_version(calls[t][1].edit), undos, redos, "version.write", NoExc)

\* Drawing.redo: edit = self.redos.pop()
redo_pop(t) ==
    /\ calls[t] = None
    /\ IF redos = <<>>
       THEN Statement(t, None, Store, version, undos, redos, "redos.pop",
                      except_IndexError("IndexError"))
       ELSE Statement(t, Local("redo", "popped", Last(redos), data, version),
                      Store, version, undos, Front(redos), "redos.pop", NoExc)

\* Drawing.redo: assert self.version == edit.version
redo_assert(t) ==
    /\ At(t, "redo", "popped")
    /\ IF version = calls[t][1].edit.version
       THEN Statement(t, Goes(t, "asserted"), Store, version, undos, redos, "assert", NoExc)
       ELSE Statement(t, None, Store, version, undos, redos, "assert", "AssertionError")

\* Drawing.redo: with self.lock: slc = edit.perform(self)
redo_perform(t) ==
    /\ At(t, "redo", "asserted")
    /\ lock = None
    /\ LET r == Perform(calls[t][1].edit, Store)
       IN Statement(t, Goes(t, "performed"), r.D, version, undos, redos, "edit.perform", r.exc)

\* Drawing.redo: self.undos.append(edit); self.dirty = slice_union(...)
redo_append(t) ==
    /\ At(t, "redo", "performed")
    /\ Statement(t, Goes(t, "dirtied"), with_dirty(Store, calls[t][1].edit.slc), version,
                 Append(undos, calls[t][1].edit), redos, "undos.append", NoExc)

\* the strokes are committed on the executor's thread, undo() and redo() are called by the
\* key handler on the main thread; a method is begun at most MaxCommitSteps statements in
CommitInit == Opened(LoadedPath, <<0, 0, 0>>) /\ Constructed(<<1, 1, 1>>, <<<<>>, <<>>, <<>>>>)

\* the method of thread t that ends with `self.version += 1`
MethodOf(t) == IF t = "ui" THEN "redo" ELSE "modify"

CommitNext ==
    \/ /\ steps < MaxCommitSteps
       /\ \E slc \in Regions(shape) :
            \E dat \in [Coords(SliceShape(slc)) -> DataValues] :
                commit_create("executor", slc, dat)
    \/ commit_assert("executor")
    \/ commit_perform("executor")
    \/ commit_dirty("executor")
    \/ \E t \in Threads : version_read(t, MethodOf(t), "dirtied")
    \/ \E t \in Threads : version_write(t, MethodOf(t))
    \/ commit_append("executor")
    \/ commit_clear("executor")
    \/ steps < MaxCommitSteps /\ undo_pop("ui")
    \/ undo_assert("ui")
    \/ undo_revert("ui")
    \/ undo_append("ui")
    \/ undo_version("ui")
    \/ steps < MaxCommitSteps /\ redo_pop("ui")
    \/ redo_assert("ui")
    \/ redo_perform("ui")
    \/ redo_append("ui")

CommitSpec == CommitInit /\ [][CommitNext]_vars

-----------------------------------------------------------------------------
(* render_view's upload of drawing.dirty against an edit on the other thread *)

\* one statement of thread t that may take or give back the drawing's lock
Stepped(t, to, D, ver, un, re, name, exc) ==
    /\ calls' = [calls EXCEPT ![t] = to]
    /\ SetStore(D)
    /\ version' = ver
    /\ undos' = un
    /\ redos' = re
    /\ Recorded(name, [thread |-> t], exc, None, FALSE, None)
    /\ UNCHANGED <<hist, path, last_saved_version, rotation, view_cache>>
    /\ UNCHANGED window_vars
    /\ UNCHANGED overlay_vars
    /\ UNCHANGED cache_vars
    /\ UNCHANGED palette_overlay

\* the 3D texture before anything was uploaded
EmptyTexture == [p \in Coords(shape) |-> 0]

\* where render_view is: the box it copied, the bytes it copied, the box it will upload
\* to, and the texture as the uploads so far have left it
Frame(pc, copied, bytes, box, texture) ==
    <<[op |-> "render_view", pc |-> pc, copied |-> copied, bytes |-> bytes, box |-> box,
       texture |-> texture]>>

\* the drawing's texture
Texture(t) == IF calls[t] = None THEN EmptyTexture ELSE calls[t][1].texture

\* thread t is between two calls
Returned(t) == IF calls[t] = None THEN TRUE ELSE calls[t][1].pc = "done"

\* render_view: `if drawing.dirty:`
render_test(t) ==
    /\ Returned(t)
    /\ Stepped(t, Frame(IF dirty # None THEN "tested" ELSE "done", None, <<>>, None, Texture(t)),
               Store, version, undos, redos, "render_view", NoExc)
    /\ UNCHANGED lock

\* render_view: `with drawing.lock:`
render_lock(t) ==
    /\ At(t, "render_view", "tested")
    /\ lock = None
    /\ lock' = <<t>>
    /\ Stepped(t, Goes(t, "locked"), Store, version, undos, redos, "lock", NoExc)

\* position of cell q of a box of shape ssh in the bytes tobytes(order="F") gives
FOrder(q, ssh) == 1 + q[1] + ssh[1] * (q[2] + ssh[2] * q[3])

\* render_view: update_data = data[drawing.dirty].tobytes(order="F")
render_copy(t) ==
    /\ At(t, "render_view", "locked")
    /\ LET ssh == SliceShape(dirty)
           bytes == [i \in 1..Size(ssh) |->
                       LET q == CHOOSE q \in Coords(ssh) : FOrder(q, ssh) = i
                       IN data[[a \in 1..3 |-> q[a] + dirty[a].start]]]
       IN Stepped(t, <<[calls[t][1] EXCEPT !.pc = "copied", !.copied = dirty, !.bytes = bytes]>>,
                  Store, version, undos, redos, "copy", NoExc)
    /\ UNCHANGED lock

\* render_view: sx, sy, sz = drawing.dirty
render_box(t) ==
    /\ At(t, "render_view", "copied")
    /\ Stepped(t, <<[calls[t][1] EXCEPT !.pc = "boxed", !.box = dirty]>>,
               Store, version, undos, redos, "box", NoExc)
    /\ UNCHANGED lock

\* render_view: drawing.dirty = None, and the end of the `with` block
render_reset(t) ==
    /\ At(t, "render_view", "boxed")
    /\ lock' = None
    /\ Stepped(t, Goes(t, "reset"), [Store EXCEPT !.dirty = None],
               version, undos, redos, "reset", NoExc)

\* bytes glTextureSubImage3D may find behind the end of the buffer it was given
Stray == {0, 255}

\* render_view: glTextureSubImage3D writes the box sx, sy, sz from update_data; what it
\* reads behind the end of a buffer that is too short is any byte
render_texture(t) ==
    /\ At(t, "render_view", "reset")
    /\ \E stray \in Stray :
         LET box == calls[t][1].box
             bytes == calls[t][1].bytes
             ssh == SliceShape(box)
             rel(p) == [a \in 1..3 |-> p[a] - box[a].start]
             texture == [p \in Coords(shape) |->
                           IF p \notin SliceCoords(box) THEN calls[t][1].texture[p]
                           ELSE IF FOrder(rel(p), ssh) <= Len(bytes)
                           THEN bytes[FOrder(rel(p), ssh)]
                           ELSE stray]
         IN Stepped(t, <<[calls[t][1] EXCEPT !.pc = "done", !.texture = texture]>>,
                    Store, version, undos, redos, "upload", NoExc)
    /\ UNCHANGED lock

\* Drawing.modify up to the end of `with self.lock: slc = edit.perform(self)`
edit_perform(t, slc, dat) ==
    /\ calls[t] = None
    /\ version < MaxVersion
    /\ lock = None
    /\ LET e == LayerEdit_create(Store, slc, dat, version)
           r == Perform(e, Store)
       IN Stepped(t, Local("modify", "performed", e, data, None),
                  r.D, version, undos, redos, "edit.perform", r.exc)
    /\ UNCHANGED lock

\* Drawing._perform_edit: slice_union(slc, self.dirty, self.shape), which reads self.dirty
edit_dirty_read(t) ==
    /\ At(t, "modify", "performed")
    /\ Stepped(t, <<[calls[t][1] EXCEPT !.pc = "read", !.seen = dirty]>>,
               Store, version, undos, redos, "dirty.read", NoExc)
    /\ UNCHANGED lock

\* Drawing._perform_edit: the assignment to self.dirty, and the rest of the method
edit_dirty_write(t) ==
    /\ At(t, "modify", "read")
    /\ Stepped(t, None,
               [Store EXCEPT !.dirty = slice_union(calls[t][1].edit.slc, calls[t][1].seen, shape)],
               version + 1, Append(undos, calls[t][1].edit), redos_clear(redos),
               "dirty.write", NoExc)
    /\ UNCHANGED lock

\* strokes are committed on the executor's thread while the main thread renders frames
DirtyInit == Opened(LoadedPath, <<0, 0, 0>>) /\ Constructed(<<2, 1, 1>>, <<<<>>, <<>>, <<>>>>)

DirtyNext ==
    \/ steps < MaxDirtySteps /\ render_test("ui")
    \/ render_lock("ui")
    \/ render_copy("ui")
    \/ render_box("ui")
    \/ render_reset("ui")
    \/ render_texture("ui")
    \/ /\ steps < MaxDirtySteps
       /\ \E slc \in Regions(shape) :
            \E dat \in [Coords(SliceShape(slc)) -> DataValues] :
                edit_perform("executor", slc, dat)
    \/ edit_dirty_read("executor")
    \/ edit_dirty_write("executor")

DirtySpec == DirtyInit /\ [][DirtyNext]_vars

-----------------------------------------------------------------------------
(* ora.py: a drawing written to an .ora file and read back *)

\* MaskedArray.tobytes(): the masked cells are written as the fill value of the array,
\* which _get_masked_data sets to 0
tobytes(v) == IF v = Masked THEN 0 ELSE v

\* ora.save_png: the rows (data[:, i] for i in range(h)) of a layer of w columns
save_png(layer, w, h) == [i \in 1..h |-> [x \in 1..w |-> tobytes(layer[<<x - 1, i - 1>>])]]

\* ora.save_ora: the stack lists the layers from the last to the first; kwargs go to
\* oldpaint.json
save_ora(size, layers, pal, hidden) ==
    [w |-> size[1], h |-> size[2],
     stack |-> [i \in 1..Len(layers) |->
                  save_png(layers[Len(layers) + 1 - i], size[1], size[2])],
     palette |-> pal,
     hidden_layers |-> hidden]

\* Drawing.to_ora: the layers of a new view (rotation (0, 0, 0)) over the masked data
to_ora_file(D) ==
    LET arr == masked_data(D.data, D.shape, D.hidden)
        layers == [k \in 1..D.shape[3] |->
                     [q \in (0..(D.shape[1] - 1)) \X (0..(D.shape[2] - 1)) |->
                        arr[<<q[1], q[2], k - 1>>]]]
    IN save_ora(<<D.shape[1], D.shape[2]>>, layers, D.palette, D.hidden)

\* ora.load_ora: np.dstack(reversed(layers)) of the images np.vstack(rows).T
load_ora(file) ==
    LET d == Len(file.stack)
    IN [shape |-> <<file.w, file.h, d>>,
        data |-> [p \in Coords(<<file.w, file.h, d>>) |->
                    file.stack[d - p[3]][p[2] + 1][p[1] + 1]],
        palette |-> file.palette,
        hidden_layers |-> file.hidden_layers]

\* Drawing.to_ora(path); the file it wrote is what the call is recorded to have given
to_ora ==
    LET r == GetData(Store)
    IN /\ Stay(r.D)
       /\ UNCHANGED <<undos, redos, path, last_saved_version, rotation>>
       /\ UNCHANGED window_vars
       /\ view_cache' = IF r.exc = NoExc THEN None ELSE view_cache
       /\ Recorded("to_ora", <<>>, r.exc, None, FALSE,
                   IF r.exc = NoExc THEN <<to_ora_file(r.D)>> ELSE None)

\* Drawing.from_ora(path) on the file the last call wrote: a new Drawing takes the place
\* of the one that was saved
from_ora ==
    /\ lastOp = "to_ora" /\ returned # None
    /\ LET loaded == load_ora(returned[1])
           D == [data |-> loaded.data, shape |-> loaded.shape,
                 hidden |-> loaded.hidden_layers, palette |-> loaded.palette,
                 cursor |-> <<0, 0, 0>>, dirty |-> full_slice(loaded.shape),
                 cached |-> FALSE]
       IN /\ SetStore(D)
          /\ hist' = <<Snapshot(D)>>
    /\ version' = 0
    /\ undos' = <<>>
    /\ redos' = <<>>
    /\ last_saved_version' = 0
    /\ rotation' = <<0, 0, 0>>
    /\ UNCHANGED <<path, view_cache>>
    /\ UNCHANGED window_vars
    /\ Recorded("from_ora", <<>>, NoExc, None, FALSE, None)

\* drawings with layers along each axis, as loaded with some layers hidden, then edited,
\* saved and loaded
OraShapes == {<<2, 1, 1>>, <<1, 2, 1>>, <<1, 1, 2>>}

OraInit == \E sh \in OraShapes : \E hid \in HiddenSets(sh) :
               Opened(LoadedPath, <<0, 0, 0>>) /\ Constructed(sh, hid)

OraNext ==
    \/ /\ Ready(MaxOraSteps)
       /\ \E slc \in Regions(shape) :
            \E dat \in [Coords(SliceShape(slc)) -> DataValues] : modify(slc, dat)
    \/ /\ Ready(MaxOraSteps)
       /\ \E axis \in Axes : \E index \in 0..(shape[axis + 1] - 1) : toggle_layer(index, axis)
    \/ Ready(MaxOraSteps) /\ to_ora
    \/ Ready(MaxOraSteps) /\ from_ora

OraSpec == OraInit /\ [][OraNext]_vars

-----------------------------------------------------------------------------
(* stroke.py: make_stroke with the arguments of the events and the period of the tool *)

\* an event as the mouse handlers put it: (event_type, *args); pos stands for the args
Event(type, pos) == [type |-> type, pos |-> pos]

\* where make_stroke is: its event_type, args and prev_args, and tool.period (None, or the
\* time it sleeps between two looks at the queue)
Stroke(pc, type, args, prev, period) ==
    <<[op |-> "make_stroke", pc |-> pc, type |-> type, args |-> args, prev |-> prev,
       period |-> period]>>

\* one step of the stroke's thread or of the handlers that feed its queue
Protocol(to, q, log, name, exc) ==
    /\ calls' = [calls EXCEPT !["executor"] = to]
    /\ mouse_event_queue' = q
    /\ stroke_log' = log
    /\ Handled(name, <<>>, exc)
    /\ UNCHANGED <<stroke, stroke_tool, executor, overlay_clears, tools, lock>>
    /\ UNCHANGED overlay_vars
    /\ UNCHANGED cache_vars
    /\ UNCHANGED palette_overlay

\* on_mouse_press: Queue(), the tool, executor.submit(make_stroke, view, queue, tool)
stroke_submit(period) ==
    /\ calls["executor"] = None /\ mouse_event_queue = None
    /\ Protocol(Stroke("submitted", None, None, None, period), <<<<>>>>, <<>>,
                "on_mouse_press", NoExc)

\* a handler puts an event into the queue of the stroke
stroke_put(e) ==
    /\ mouse_event_queue # None
    /\ Len(mouse_event_queue[1]) < MaxQueued
    /\ Protocol(calls["executor"], <<Append(mouse_event_queue[1], e)>>, stroke_log,
                "put", NoExc)

\* the record of an event make_stroke goes on with, and of a callback of the tool
Fetched(e) == [kind |-> "event", type |-> e.type, pos |-> e.pos]
Callback(kind, e) == [kind |-> kind, type |-> e.type, pos |-> e.pos]

\* make_stroke: event_type, *args = event_queue.get(); assert event_type == "mouse_down";
\* tool.start(view, *args)
stroke_first ==
    /\ At("executor", "make_stroke", "submitted")
    /\ mouse_event_queue[1] # <<>>
    /\ LET e == Head(mouse_event_queue[1])
           me == calls["executor"][1]
       IN IF e.type = "mouse_down"
          THEN Protocol(Stroke("loop", e.type, <<e.pos>>, None, me.period),
                        <<Tail(mouse_event_queue[1])>>,
                        stroke_log \o <<Fetched(e), Callback("start", e)>>,
                        "make_stroke", NoExc)
          ELSE Protocol(Stroke("raised", e.type, <<e.pos>>, None, me.period),
                        <<Tail(mouse_event_queue[1])>>,
                        Append(stroke_log, Fetched(e)),
                        "make_stroke", "AssertionError")

\* a loop that takes every mouse_drag for a move to another pixel
same_pixel_never(args, prev) == FALSE

\* make_stroke: `if args == prev_args: continue`
same_pixel(args, prev) == args = prev

\* make_stroke, the rest of one turn of the loop once event_type and args are set; fetched
\* tells whether they come from the queue in this turn
stroke_turn(type, args, prev, q, fetched) ==
    LET me == calls["executor"][1]
        e == Event(type, args[1])
        seen == IF fetched THEN Append(stroke_log, Fetched(e)) ELSE stroke_log
    IN IF type = "abort"
       THEN Protocol(Stroke("returned", type, args, prev, me.period), q, seen,
                     "make_stroke", NoExc)
       ELSE IF type = "mouse_drag"
       THEN IF same_pixel(args, prev)
            THEN Protocol(Stroke("loop", type, args, prev, me.period), q, seen,
                          "make_stroke", NoExc)
            ELSE Protocol(Stroke("loop", type, args, prev, me.period), q,
                          Append(seen, Callback("draw", e)), "make_stroke", NoExc)
       ELSE IF type = "mouse_up"
       THEN Protocol(Stroke("returned", type, args, prev, me.period), q,
                     Append(seen, Callback("finish", e)), "make_stroke", NoExc)
       ELSE Protocol(Stroke("loop", type, args, prev, me.period), q, seen,
                     "make_stroke", NoExc)

\* make_stroke with tool.period None: event_queue.get() waits for an event, and what has
\* piled up behind it is skipped
stroke_wait ==
    /\ At("executor", "make_stroke", "loop")
    /\ calls["executor"][1].period = None
    /\ mouse_event_queue[1] # <<>>
    /\ LET e == Last(mouse_event_queue[1])
       IN stroke_turn(e.type, <<e.pos>>, calls["executor"][1].args, <<<<>>>>, TRUE)

\* make_stroke with a period: after the sleep the queue is emptied; when it was empty
\* event_type and args are those of the turn before (event_type is never None again)
stroke_poll ==
    /\ At("executor", "make_stroke", "loop")
    /\ calls["executor"][1].period # None
    /\ LET me == calls["executor"][1]
       IN IF mouse_event_queue[1] # <<>>
          THEN stroke_turn(Last(mouse_event_queue[1]).type, <<Last(mouse_event_queue[1]).pos>>,
                           me.args, <<<<>>>>, TRUE)
          ELSE stroke_turn(me.type, me.args, me.args, mouse_event_queue, FALSE)

\* the strokes of a tool without and with a period, fed with any events
EventTypes == {"mouse_down", "mouse_drag", "mouse_up", "abort"}
Positions == {0, 1}
Periods == {None, <<2>>}

ProtocolInit == StrokeInit

ProtocolNext ==
    \/ steps < MaxProtocolSteps /\ \E period \in Periods : stroke_submit(period)
    \/ /\ steps < MaxProtocolSteps
       /\ \E type \in EventTypes, pos \in Positions : stroke_put(Event(type, pos))
    \/ steps < MaxProtocolSteps /\ stroke_first
    \/ steps < MaxProtocolSteps /\ stroke_wait
    \/ steps < MaxProtocolSteps /\ stroke_poll

ProtocolSpec == ProtocolInit /\ [][ProtocolNext]_vars

-----------------------------------------------------------------------------
(* The preview of an ephemeral tool, redrawn by make_stroke while the renderer runs *)

\* where make_stroke is: the statement, tool.rect, the rectangle the Overlay method has just
\* written with the method that wrote it, the overlay.dirty it has read, and the statement
\* that follows the method
Preview(pc, rect, kind, wrote, seen, back) ==
    <<[op |-> "make_stroke", pc |-> pc, rect |-> rect, kind |-> kind, wrote |-> wrote,
       seen |-> seen, back |-> back]>>

\* one statement of the stroke's thread: the overlay's cells, overlay.dirty and the lock after it
Previewed(to, cells, dirt, lk, name) ==
    /\ calls' = [calls EXCEPT !["executor"] = to]
    /\ overlay_data' = cells
    /\ overlay_dirty' = dirt
    /\ overlay_lock' = lk
    /\ Handled(name, <<>>, NoExc)
    /\ UNCHANGED <<lock, overlay_texture, overlay_calls, overlay_ops, frame>>
    /\ UNCHANGED window_vars
    /\ UNCHANGED cache_vars
    /\ UNCHANGED palette_overlay

\* the overlay after a method has put its value into the cells of r
Written(kind, r) ==
    [c \in OverlayCells |-> IF InRect(c, r) THEN overlay_value(kind) ELSE overlay_data[c]]

\* on_mouse_press submits make_stroke with a LineTool or a RectangleTool (ephemeral = True);
\* tool.start only notes the point, tool.rect is None
preview_start ==
    /\ calls["executor"] = None
    /\ Previewed(Preview("loop", None, None, None, None, None),
                 overlay_data, overlay_dirty, overlay_lock, "tool.start")

\* make_stroke, mouse_drag while tool.rect is None: tool.draw outside any block; the drawing
\* method of the Overlay takes the lock for its write to data
preview_draw(r) ==
    /\ At("executor", "make_stroke", "loop")
    /\ calls["executor"][1].rect = None
    /\ overlay_lock = None
    /\ Previewed(Preview("wrote", None, "draw", <<r>>, None, "loop"),
                 Written("draw", r), overlay_dirty, overlay_lock, "tool.draw")

\* make_stroke, mouse_drag with tool.rect set: `with view.overlay.lock:`
preview_lock ==
    /\ At("executor", "make_stroke", "loop")
    /\ calls["executor"][1].rect # None
    /\ overlay_lock = None
    /\ Previewed(Goes("executor", "locked"), overlay_data, overlay_dirty, <<"executor">>,
                 "overlay.lock")

\* view.overlay.clear(tool.rect) inside the block: the write to data
preview_clear ==
    /\ At("executor", "make_stroke", "locked")
    /\ LET me == calls["executor"][1]
       IN Previewed(Preview("wrote", me.rect, "clear", me.rect, None, "cleared"),
                    Written("clear", me.rect[1]), overlay_dirty, overlay_lock, "overlay.clear")

\* tool.draw(view, *args) inside the block: the write to data of draw_line / draw_rectangle
preview_redraw(r) ==
    /\ At("executor", "make_stroke", "cleared")
    /\ LET me == calls["executor"][1]
       IN Previewed(Preview("wrote", me.rect, "draw", <<r>>, None, "redrawn"),
                    Written("draw", r), overlay_dirty, overlay_lock, "tool.draw")

\* the Overlay method after its write: `self.dirty = rect.unite(self.dirty)` reads self.dirty
preview_dirty_read ==
    /\ At("executor", "make_stroke", "wrote")
    /\ LET me == calls["executor"][1]
       IN Previewed(Preview("read", me.rect, me.kind, me.wrote, overlay_dirty, me.back),
                    overlay_data, overlay_dirty, overlay_lock, "overlay.dirty")

\* ... and assigns it; the method returns its rectangle, which tool.draw keeps in tool.rect
preview_dirty_write ==
    /\ At("executor", "make_stroke", "read")
    /\ LET me == calls["executor"][1]
       IN Previewed(Preview(me.back, IF me.kind = "draw" THEN me.wrote ELSE me.rect,
                            None, None, None, None),
                    overlay_data, <<unite(me.wrote[1], me.seen)>>, overlay_lock,
                    "overlay.dirty")

\* the end of the `with view.overlay.lock:` block
preview_release ==
    /\ At("executor", "make_stroke", "redrawn")
    /\ Previewed(Goes("executor", "loop"), overlay_data, overlay_dirty, None,
                 "overlay.lock")

\* one stroke of an ephemeral tool dragged to any rectangles, and the frames of the renderer
PreviewInit == LockInit

PreviewNext ==
    \/ steps < MaxPreviewSteps /\ preview_start
    \/ steps < MaxPreviewSteps /\ \E r \in Rectangles : preview_draw(r)
    \/ steps < MaxPreviewSteps /\ preview_lock
    \/ steps < MaxPreviewSteps /\ preview_clear
    \/ steps < MaxPreviewSteps /\ \E r \in Rectangles : preview_redraw(r)
    \/ steps < MaxPreviewSteps /\ preview_dirty_read
    \/ steps < MaxPreviewSteps /\ preview_dirty_write
    \/ steps < MaxPreviewSteps /\ preview_release
    \/ render_begin("ui")
    \/ render_read("ui")
    \/ render_upload("ui")

PreviewSpec == PreviewInit /\ [][PreviewNext]_vars

-----------------------------------------------------------------------------
(* The palette's live preview: Palette.overlay beside the committed Palette._colors *)

\* Palette.colors / _get_overlayed_colors: per index the overlay's colour where it has one
Palette_colors(pal, ov) ==
    [i \in 1..PaletteSize |->
        IF \E p \in ov : p[1] = i - 1
        THEN (CHOOSE p \in ov : p[1] = i - 1)[2]
        ELSE pal[i]]

\* a call on the palette that goes through no Drawing method
Previewing(op, args, ov) ==
    /\ palette_overlay' = ov
    /\ Handled(op, args, NoExc)
    /\ UNCHANGED <<lock, calls>>
    /\ UNCHANGED window_vars
    /\ UNCHANGED overlay_vars
    /\ UNCHANGED cache_vars

\* Palette.set_overlay(i, color): self.overlay[i] = color
set_overlay(i, color) ==
    Previewing("set_overlay", [i |-> i, color |-> color],
               {p \in palette_overlay : p[1] # i} \cup {<<i, color>>})

\* Palette.clear_overlay(): self.overlay.clear()
clear_overlay == Previewing("clear_overlay", <<>>, {})

\* the palette edited, previewed, undone and redone
OverlayIndexes == {0, PaletteSize - 1}
PreviewColors == {Color(<<9, 9, 9, 255>>)}

PaletteInit == StrokeInit

PaletteNext ==
    \/ /\ Ready(MaxPaletteSteps)
       /\ \E start_i \in StartIndexes, colors \in ColorRuns : change_colors(start_i, colors)
    \/ Ready(MaxPaletteSteps) /\ undo
    \/ Ready(MaxPaletteSteps) /\ redo
    \/ /\ steps < MaxPaletteSteps
       /\ \E i \in OverlayIndexes, color \in PreviewColors : set_overlay(i, color)
    \/ steps < MaxPaletteSteps /\ clear_overlay

PaletteSpec == PaletteInit /\ [][PaletteNext]_vars

\* the layer edits, undo and redo on a two-layer drawing loaded with hidden layers
RenumberInit == \E hid \in HiddenSets(<<2, 1, 1>>) :
                    Opened(LoadedPath, <<0, 0, 0>>) /\ Constructed(<<2, 1, 1>>, hid)

RenumberSpec == RenumberInit /\ [][JournalNext]_vars

-----------------------------------------------------------------------------
(* Properties of the journal (undo / redo) *)

\* the methods that create an edit and hand it to _perform_edit
EditOps == {"modify", "rotate", "flip", "change_colors", "move_layer", "insert_layers",
            "delete_layers"}

\* the last call journalled a new edit, or moved one between the stacks
Applied == lastOp \in EditOps /\ completed
Undone == lastOp = "undo" /\ completed
Redone == lastOp = "redo" /\ completed

\* the cells (with their shape), palette and hidden sets are those of snapshot S
SameCells(S) == shape = S.shape /\ data = S.data
SameStore(S) == SameCells(S) /\ palette = S.palette /\ hidden_layers_by_axis = S.hidden

\* C1: an undo() that reverts an edit returns the cells and the palette to exactly what they
\* were before that edit was applied, and the version to its value before the edit.
C1_UndoRoundTrip ==
    Undone => /\ SameCells(hist[version + 1])
              /\ palette = hist[version + 1].palette
              /\ version = before.version - 1

\* undo() has reverted insert_layers(index, axis, 2) and removed one of the two layers only
C1_Witness ==
    /\ Undone
    /\ before.op = "insert_layers" /\ before.done /\ before.args.n = 2
    /\ hist[version + 1].shape = <<1, 1, 1>>
    /\ shape = <<2, 1, 1>>

\* C2: a redo() that replays an undone edit reproduces the cells, palette, hidden-layer sets,
\* shape and version that the store had before the undo.
C2_RedoReplays ==
    Redone => /\ SameStore(hist[version + 1])
              /\ version = before.version + 1

\* redo() has put two layers back where undo() had removed one
C2_Witness ==
    /\ Redone
    /\ hist[version + 1].shape = <<3, 1, 1>>
    /\ shape = <<4, 1, 1>>

\* the overlay entry modify() was given for cell p of the store
PaintOf(p) == lastArgs.data[[a \in 1..3 |-> p[a] - lastArgs.slc[a].start]]

\* C3: after modify(region, data) every cell of the region whose data entry is non-zero holds
\* the low 8 bits of that entry, every cell of the region whose entry is zero keeps its value,
\* and every cell outside the region is unchanged.
C3_ModifyCellDiff ==
    (lastOp = "modify" /\ completed) =>
        /\ shape = before.store.shape
        /\ \A p \in Coords(shape) :
             data[p] = IF p \in SliceCoords(lastArgs.slc) /\ OverlayBool(PaintOf(p))
                       THEN PaintOf(p).lo % 256
                       ELSE before.store.data[p]

\* modify() has completed and a cell it was to paint, lying in a hidden layer, kept a
\* value other than the painted one
C3_Witness ==
    /\ lastOp = "modify" /\ completed
    /\ \E p \in SliceCoords(lastArgs.slc) :
          /\ OverlayBool(PaintOf(p))
          /\ IsMasked(shape, hidden_layers_by_axis, p)
          /\ data[p] = before.store.data[p]
          /\ data[p] # PaintOf(p).lo % 256

\* C4: a new edit leaves the redo stack empty and itself on top of the undo stack, and a
\* redo() called right after a new edit changes nothing.
C4_NewEditClearsRedo ==
    /\ Applied => /\ redos = <<>>
                  /\ undos # <<>>
                  /\ Front(undos) = before.undos
                  /\ Last(undos).version = before.version
    /\ (lastOp = "redo" /\ before.op \in EditOps /\ before.done) =>
          /\ raised = NoExc
          /\ Store = before.store
          /\ version = before.version
          /\ undos = before.undos
          /\ redos = before.redos

\* a new edit was applied while the redo stack held an undone edit
C4_Witness == Applied /\ before.redos # <<>> /\ redos = <<>>

\* C5 as stated: the version never decreases.
C5_VersionNeverDecreases == version >= before.version

\* C5: the version goes up by exactly one with every edit that is applied and with every
\* redo() that replays an edit, goes down by exactly one with every undo() that reverts
\* an edit, and is left alone by every other call (one that raises, an undo() or redo()
\* that moves no edit, hiding a layer, moving the cursor, rendering).
C5_VersionSteps ==
    /\ version >= 0
    /\ (lastOp \in EditOps /\ raised = NoExc) => version = before.version + 1
    /\ (lastOp \in EditOps /\ raised # NoExc) => version = before.version
    /\ lastOp = "undo" =>
          version = before.version - (IF Len(redos) > Len(before.redos) THEN 1 ELSE 0)
    /\ lastOp = "redo" =>
          version = before.version + (IF Len(undos) > Len(before.undos) THEN 1 ELSE 0)
    /\ lastOp \notin (EditOps \cup {"undo", "redo", "init"}) => version = before.version

\* an undo() has reverted an edit and lowered the version
C5_Witness == Undone /\ redos # <<>> /\ version = before.version - 1

\* C6: undo() on a non-empty undo stack moves exactly the top edit to the top of the redo
\* stack and lowers the version by one; redo() on a non-empty redo stack moves the top edit
\* back and raises the version by one; the other edits of both stacks keep their order.
C6_UndoRedoMoveTop ==
    /\ (lastOp = "undo" /\ before.undos # <<>>) =>
          /\ undos = Front(before.undos)
          /\ redos = Append(before.redos, Last(before.undos))
          /\ version = before.version - 1
    /\ (lastOp = "redo" /\ before.redos # <<>>) =>
          /\ redos = Front(before.redos)
          /\ undos = Append(before.undos, Last(before.redos))
          /\ version = before.version + 1

\* undo() has popped an edit whose revert raised: the edit is on neither stack
C6_Witness ==
    /\ lastOp = "undo" /\ raised = "ValueError"
    /\ before.undos # <<>>
    /\ undos = Front(before.undos)
    /\ redos = before.redos

\* C7: undo() with an empty undo stack and redo() with an empty redo stack raise nothing and
\* leave the cells, palette, hidden-layer sets, version, both stacks and the dirty region
\* as they were.
C7_EmptyUndoRedoNoOp ==
    ((lastOp = "undo" /\ before.undos = <<>>) \/ (lastOp = "redo" /\ before.redos = <<>>)) =>
        /\ raised = NoExc
        /\ Store = before.store
        /\ version = before.version
        /\ undos = before.undos
        /\ redos = before.redos

\* undo() was called on an empty undo stack of a drawing that some earlier call had touched
C7_Witness == lastOp = "undo" /\ before.undos = <<>> /\ before.op # "init"

-----------------------------------------------------------------------------
(* Properties of the dirty region *)

\* the cells of the store whose value the last call changed (a cell that did not exist
\* before the call counts as changed)
Changed == {p \in Coords(shape) :
               p \notin Coords(before.store.shape) \/ data[p] # before.store.data[p]}

\* box slc covers cell p
Covers(slc, p) == slc # None /\ p \in SliceCoords(slc)

\* C8: for every edit kind, and for perform, undo and redo alike, every cell whose value
\* changed lies within the box that perform / revert reported, and within the dirty region.
C8_DirtySound ==
    (Applied \/ Undone \/ Redone) =>
        \A p \in Changed : Covers(lastRegion, p) /\ Covers(dirty, p)

\* flip() has changed cells and DrawingFlipEdit.perform reported no box
C8_Witness == lastOp = "flip" /\ completed /\ Changed # {} /\ lastRegion = None

\* C9: the box that perform / revert reports is never larger than the bounding box of the
\* cells that changed.
C9_DirtyMinimal ==
    ((Applied \/ Undone \/ Redone) /\ lastRegion # None) =>
        \A a \in 1..3 :
            \/ lastRegion[a].start >= lastRegion[a].stop
            \/ /\ \E p \in Changed : p[a] = lastRegion[a].start
               /\ \E p \in Changed : p[a] = lastRegion[a].stop - 1

\* move_layer() has swapped two of three layers and reported the whole drawing
C9_Witness ==
    /\ lastOp = "move_layer" /\ completed
    /\ lastRegion = full_slice(shape)
    /\ Changed # {}
    /\ \E p \in Coords(shape) : p \notin Changed

-----------------------------------------------------------------------------
(* Properties of the layer edits *)

\* C10: insert_layers(index, axis, count) followed by delete_layers(index, axis, count)
\* restores the shape, the cells and the hidden-layer sets the store had before the insert.
C10_InsertDeleteInverse ==
    (/\ lastOp = "delete_layers" /\ completed
     /\ before.op = "insert_layers" /\ before.done
     /\ lastArgs = before.args) =>
        /\ SameCells(hist[version - 1])
        /\ hidden_layers_by_axis = hist[version - 1].hidden

\* delete_layers(index, axis, 2) has removed one of the two layers insert_layers had added
C10_Witness ==
    /\ lastOp = "delete_layers" /\ completed
    /\ before.op = "insert_layers" /\ before.done
    /\ lastArgs = before.args /\ lastArgs.n = 2
    /\ shape[lastArgs.axis + 1] = hist[version - 1].shape[lastArgs.axis + 1] + 1

\* C11: delete_layers(index, axis, count) followed by undo() restores the shape and every cell
\* value the store had before the deletion, for every count >= 1 and also when the deleted
\* layers, or layers crossing them along another axis, are hidden.
C11_DeleteUndoRestores ==
    (lastOp = "undo" /\ before.op = "delete_layers" /\ before.done) =>
        /\ raised = NoExc
        /\ SameCells(hist[before.version])

\* undo() has put back a deleted layer that was hidden, and a cell of it holds the fill
\* value of the masked array instead of its colour
C11_Witness ==
    /\ Undone
    /\ before.op = "delete_layers" /\ before.done /\ before.args.n = 1
    /\ shape = hist[version + 1].shape
    /\ \E p \in Coords(shape) :
          /\ p[before.args.axis + 1] = before.args.index
          /\ data[p] = ToUint8(DefaultFiller)
          /\ data[p] # hist[version + 1].data[p]

-----------------------------------------------------------------------------
(* Properties of the hidden layers *)

\* the insertion or deletion of layers the last call carried out on the cells, if any
LayersChanged ==
    LET rec(ins, e) == <<[ins |-> ins, index |-> e.index, axis |-> e.axis, n |-> e.n]>>
        structural(e) == e.kind \in {"LayersInsertEdit", "LayersDeleteEdit"}
    IN IF shape = before.store.shape THEN <<>>
       ELSE IF lastOp \in {"insert_layers", "delete_layers"}
       THEN rec(lastOp = "insert_layers", lastArgs)
       ELSE IF lastOp = "undo" /\ before.undos # <<>> /\ structural(Last(before.undos))
       THEN rec(Last(before.undos).kind = "LayersDeleteEdit", Last(before.undos))
       ELSE IF lastOp = "redo" /\ before.redos # <<>> /\ structural(Last(before.redos))
       THEN rec(Last(before.redos).kind = "LayersInsertEdit", Last(before.redos))
       ELSE <<>>

\* the hidden set H of an axis as the claim renumbers it
Renumbered(H, op) ==
    IF op.ins
    THEN {l \in H : l < op.index} \cup {l + op.n : l \in {h \in H : h >= op.index}}
    ELSE {l \in H : l < op.index} \cup {l - op.n : l \in {h \in H : h >= op.index + op.n}}

\* C12: inserting count layers at index along an axis shifts every hidden index >= index of
\* that axis up by count and leaves the lower ones alone; deleting count layers at index drops
\* every hidden index in [index, index + count), shifts every hidden index >= index + count
\* down by count and leaves the lower ones alone; the hidden sets of the two other axes are
\* untouched.
C12_HiddenRenumbering ==
    \A k \in 1..Len(LayersChanged) :
        LET op == LayersChanged[k]
        IN \A a \in Axes :
              SeqToSet(hidden_layers_by_axis[a + 1]) =
                 IF a = op.axis
                 THEN Renumbered(SeqToSet(before.store.hidden[a + 1]), op)
                 ELSE SeqToSet(before.store.hidden[a + 1])

\* insert_layers has put a layer below a hidden one, whose index went up by the count
C12_Witness ==
    /\ lastOp = "insert_layers" /\ completed
    /\ \E l \in SeqToSet(before.store.hidden[lastArgs.axis + 1]) :
          /\ l >= lastArgs.index
          /\ l + lastArgs.n \in SeqToSet(hidden_layers_by_axis[lastArgs.axis + 1])
          /\ l \notin SeqToSet(hidden_layers_by_axis[lastArgs.axis + 1])

\* for every cell of the store, the place it had before a completed rotate() / flip()
CameFrom ==
    LET e == Last(undos)
        osh == before.store.shape
        places == [q \in Coords(osh) |-> q]
    IN IF e.kind = "DrawingFlipEdit" THEN Flip(places, osh, e.axis)
       ELSE Rot90(places, osh, e.amount, OtherAxes(e.axis)[1], OtherAxes(e.axis)[2])

\* the axis along which the layers of axis a were stacked before that rotate() / flip()
AxisBefore(a) ==
    LET e == Last(undos)
    IN IF e.kind = "DrawingFlipEdit" \/ a = e.axis \/ e.amount % 2 = 0 THEN a
       ELSE IF a = OtherAxes(e.axis)[1] THEN OtherAxes(e.axis)[2]
       ELSE OtherAxes(e.axis)[1]

\* C13: after rotate(amount, axis) on a store of any shape and after flip(axis), a layer is
\* hidden along an axis if and only if the layer that holds the same cells was hidden before
\* the operation.
C13_RotateFlipHidden ==
    (lastOp \in {"rotate", "flip"} /\ completed) =>
        \A a \in Axes : \A p \in Coords(shape) :
            (p[a + 1] \in SeqToSet(hidden_layers_by_axis[a + 1]))
               <=> (CameFrom[p][AxisBefore(a) + 1]
                       \in SeqToSet(before.store.hidden[AxisBefore(a) + 1]))

\* rotate() has turned a store that is not square in the rotated plane, and a layer whose
\* cells were all hidden before is not hidden now
C13_Witness ==
    /\ lastOp = "rotate" /\ completed
    /\ shape # before.store.shape
    /\ \E a \in Axes : \E p \in Coords(shape) :
          /\ p[a + 1] \notin SeqToSet(hidden_layers_by_axis[a + 1])
          /\ CameFrom[p][AxisBefore(a) + 1]
                \in SeqToSet(before.store.hidden[AxisBefore(a) + 1])

\* C14: in every reachable state each index of hidden_layers_by_axis[a] names a layer of
\* the store (0 <= index < shape[a]) and occurs once.
C14_HiddenInRange ==
    \A a \in Axes :
        LET hl == hidden_layers_by_axis[a + 1]
        IN \A k \in 1..Len(hl) :
              /\ 0 <= hl[k] /\ hl[k] < shape[a + 1]
              /\ \A j \in 1..Len(hl) : hl[j] = hl[k] => j = k

\* rotate() has left a hidden index that names no layer of the turned store
C14_Witness ==
    /\ lastOp = "rotate" /\ completed
    /\ \E a \in Axes : \E k \in 1..Len(hidden_layers_by_axis[a + 1]) :
          hidden_layers_by_axis[a + 1][k] >= shape[a + 1]

-----------------------------------------------------------------------------
(* Properties of the cursor *)

\* C17: the cursor is always inside the store: 0 <= cursor[a] < shape[a] on every axis, after
\* any set_cursor or move_cursor call and after any insert_layers, delete_layers or rotate
\* edit and its undo / redo.
C17_CursorInside == \A a \in Axes : 0 <= cursor[a + 1] /\ cursor[a + 1] < shape[a + 1]

\* delete_layers has removed a layer below the cursor's, failed to move the cursor down, and
\* left it beyond the last layer of a store that is not empty
C17_Witness ==
    /\ lastOp = "delete_layers" /\ raised = "TypeError"
    /\ shape[lastArgs.axis + 1] = before.store.shape[lastArgs.axis + 1] - 1
    /\ shape[lastArgs.axis + 1] >= 1
    /\ cursor = before.store.cursor
    /\ cursor[lastArgs.axis + 1] >= shape[lastArgs.axis + 1]

-----------------------------------------------------------------------------
(* Properties of the view *)

\* C15: for every view rotation whose direction is one of the six axis directions and every
\* cursor inside the store, the view's layer index satisfies 0 <= index < D, where D is the
\* size of the store along the stacking axis.
C15_LayerIndexInRange ==
    (/\ lastOp = "view_index" /\ raised = NoExc
     /\ C17_CursorInside
     /\ \E a \in Axes : \E sgn \in {-1, 1} :
           get_direction(rotation) = WithAxis(<<0, 0, 0>>, a, sgn)) =>
        /\ returned # None
        /\ 0 <= returned[1]
        /\ returned[1] < shape[get_axis(get_direction(rotation)) + 1]

\* the layer index was read on a view that looks against the stacking axis, with the cursor
\* away from the first layer
C15_Witness ==
    /\ lastOp = "view_index" /\ raised = NoExc /\ returned # None
    /\ \E a \in Axes :
          /\ get_direction(rotation) = WithAxis(<<0, 0, 0>>, a, -1)
          /\ cursor[a + 1] > 0
          /\ returned[1] = shape[a + 1] - 1 - cursor[a + 1]

\* C16: every read of view.data gives the store's current masked cells rotated by the view's
\* current rotation, also after a change of the store that leaves shape and rotation equal
\* (a cell edit, hide_layer / show_layer, undo, redo): it is never served from a stale
\* cached value.
C16_ViewDataCurrent ==
    (lastOp = "view_data" /\ raised = NoExc) =>
        returned = <<rotated(masked_data(data, shape, hidden_layers_by_axis), shape, rotation)>>

\* view.data was read, a layer was hidden or shown, and view.data was read again with the
\* same shape and rotation
C16_Witness ==
    /\ lastOp = "view_data" /\ raised = NoExc
    /\ before.op \in {"hide_layer", "show_layer"}
    /\ view_cache # <<>>
    /\ view_cache[1].hidden # hidden_layers_by_axis
    /\ view_cache[1].shape = shape /\ view_cache[1].rotation = rotation

-----------------------------------------------------------------------------
(* Properties of save *)

\* the cells, palette, version and both stacks are as before the last call
Untouched ==
    /\ SameStore(before.store)
    /\ version = before.version
    /\ undos = before.undos
    /\ redos = before.redos

\* the path save() decided on
Target == IF lastArgs.path # NoPath THEN lastArgs.path ELSE before.path

\* C18: a successful save in normal mode sets last_saved_version to the current version (so
\* unsaved becomes false) and records the path; a successful save in autosave mode leaves
\* last_saved_version and path unchanged; neither changes cells, version or the stacks.
C18_SuccessfulSave ==
    (lastOp = "save" /\ raised = NoExc) =>
        /\ Untouched
        /\ IF lastArgs.auto
           THEN /\ last_saved_version = before.last_saved_version
                /\ path = before.path
                /\ unsaved <=> before.last_saved_version < before.version
           ELSE /\ last_saved_version = version
                /\ path = Target
                /\ ~unsaved

\* an edited, unsaved drawing was saved successfully in normal mode under a new path
C18_Witness ==
    /\ lastOp = "save" /\ raised = NoExc /\ ~lastArgs.auto
    /\ before.last_saved_version < before.version
    /\ before.path # path

\* C19: a failed save (no path, unsupported extension, or the archive writer raising) raises
\* and leaves last_saved_version, path, cells, palette, version and both stacks unchanged.
C19_FailedSave ==
    (/\ lastOp = "save"
     /\ \/ Target = NoPath
        \/ Target.ext # ".ora"
        \/ raised # NoExc) =>
        /\ raised # NoExc
        /\ Untouched
        /\ last_saved_version = before.last_saved_version
        /\ path = before.path

\* the archive writer failed while saving an edited drawing in normal mode under a new path
C19_Witness ==
    /\ lastOp = "save" /\ raised = "OSError" /\ ~lastArgs.auto
    /\ unsaved /\ lastArgs.path # NoPath /\ lastArgs.path # path

-----------------------------------------------------------------------------
(* Properties of the stroke *)

\* C20: at most one stroke is active at a time: a mouse press that arrives while a stroke is
\* active (its event queue exists) is a no-op - it creates no queue, no tool and no worker
\* task, and does not clear the overlay.
C20_PressWhileStrokeActive ==
    /\ Cardinality({i \in 1..Len(executor) : executor[i].fn = "make_stroke"}) <= 1
    /\ (lastOp = "on_mouse_press" /\ before.window[1] # None) =>
          /\ mouse_event_queue = before.window[1]
          /\ stroke = before.window[2]
          /\ stroke_tool = before.window[3]
          /\ executor = before.window[4]
          /\ overlay_clears = before.window[5]
          /\ tools = before.window[6]

\* the left button was pressed, and reached the handler, while the worker of the running
\* stroke had taken every event out of the queue
C20_Witness ==
    /\ lastOp = "on_mouse_press"
    /\ lastArgs.button = LEFT /\ ~lastArgs.captured
    /\ before.window[1] = <<<<>>>>
    /\ before.window[2] = <<"running">>

Aborted ==
    /\ lastOp = "_finish_stroke"
    /\ \E j \in 1..Len(stroke_log) : stroke_log[j] = <<"abort", Last(stroke_log)[2]>>

\* C22: when the stroke worker processes an "abort" event it returns without calling
\* tool.finish, and the completion handler then constructs no Edit (version, stacks and
\* cells unchanged), clears the whole overlay and returns the window to the idle state.
C22_AbortDiscards ==
    Aborted =>
        /\ \A j \in 1..Len(stroke_log) : stroke_log[j] # <<"finish", Last(stroke_log)[2]>>
        /\ Untouched
        /\ overlay_clears = before.window[5] + 1
        /\ mouse_event_queue = None
        /\ stroke = None
        /\ stroke_tool = None
        /\ executor = <<>>

\* a stroke that had drawn was aborted and its completion handler has run
C22_Witness ==
    /\ Aborted
    /\ \E j \in 1..Len(stroke_log) : stroke_log[j] = <<"draw", Last(stroke_log)[2]>>

\* the completion handler has just run for a stroke that ended with mouse_up
Finished ==
    /\ lastOp = "_finish_stroke"
    /\ \E j \in 1..Len(stroke_log) : stroke_log[j] = <<"finish", Last(stroke_log)[2]>>

\* C23: a stroke that finishes with mouse_up pushes exactly one Edit (version + 1) when the
\* tool's rectangle is non-empty, and no Edit (cells, version and stacks unchanged) when it
\* is empty or None; in both cases the overlay is cleared afterwards.
C23_RectIsCommitSignal ==
    Finished =>
        /\ IF lastArgs.rect
           THEN /\ version = before.version + 1
                /\ Len(undos) = Len(before.undos) + 1
           ELSE Untouched
        /\ overlay_clears = before.window[5] + 1

\* the completion handler of a stroke whose tool left a rect has raised and pushed no Edit
C23_Witness ==
    /\ Finished
    /\ lastArgs.rect
    /\ raised = "AttributeError"
    /\ version = before.version /\ undos = before.undos
    /\ mouse_event_queue # None

\* the worker of a started stroke has just drained the queue, which held the events evs
Drained(evs) ==
    /\ lastOp = "make_stroke"
    /\ before.window[4] # <<>>
    /\ Head(before.window[4]).state = "started"
    /\ before.window[1] = <<evs>>

\* C24: when the stroke worker drains queued events, a queued mouse_up or abort event is
\* processed even if mouse_drag events were queued after it.
C24_DrainKeepsStrokeEnd ==
    \A evs \in {before.window[1][k] : k \in 1..Len(before.window[1])} :
        (Drained(evs) /\ \E k \in 1..Len(evs) : evs[k] \in {"mouse_up", "abort"}) =>
            Last(stroke_log)[1] \in {"finish", "abort"}

\* the worker found mouse_up followed by mouse_drag in the queue, drew, and waits for more
C24_Witness ==
    /\ Drained(<<"mouse_up", "mouse_drag">>)
    /\ Last(stroke_log)[1] = "draw"
    /\ stroke = <<"running">>
    /\ mouse_event_queue = <<<<>>>>

-----------------------------------------------------------------------------
(* Properties of the locks *)

\* the methods that write cells or hidden layers
Writes == {"modify", "undo", "redo", "toggle_layer"}

\* thread t is inside a method of the set ops
Inside(t, ops) == calls[t] # None /\ calls[t][1] \in ops

\* C25: every write to the cells or to hidden_layers_by_axis (edits, undo, redo, hide_layer,
\* show_layer, toggle_layer) is made while the writing thread holds the Drawing's lock, so
\* no two threads write at the same time and the renderer's copy never overlaps a write.
C25_LockDiscipline ==
    /\ \A t \in Threads : Inside(t, Writes) => lock = <<t>>
    /\ \A t, u \in Threads :
          (t # u /\ Inside(t, Writes)) => ~Inside(u, Writes \cup {"render_view"})

\* one thread is inside toggle_layer without the lock while the other holds the lock
\* inside an edit
C25_Witness ==
    \E t, u \in Threads :
        /\ Inside(t, {"toggle_layer"}) /\ lock = <<u>> /\ t # u
        /\ Inside(u, {"modify"})

\* no thread is inside an Overlay method or a frame
Quiet == \A t \in Threads : overlay_calls[t].at = "idle"

\* a cell whose content the texture does not show and overlay.dirty does not cover
Lost(c) ==
    /\ overlay_texture[c] # overlay_data[c]
    /\ overlay_dirty = None \/ ~InRect(c, overlay_dirty[1])

\* the step is a frame that gives up on the lock, the frame before not having done so
GivesUp ==
    /\ overlay_calls["ui"].at = "idle"
    /\ overlay_dirty # None
    /\ ~acquire(overlay_lock, "ui")
    /\ frame # "gave_up" /\ frame' = "gave_up"

C27_NoDirtyLost == Quiet => \A c \in OverlayCells : ~Lost(c)

\* clear on the main thread and blit on the worker have both returned, nothing was ever
\* uploaded, and a drawn cell is not covered by overlay.dirty
C27_Witness ==
    /\ Quiet
    /\ overlay_calls["ui"].op = "clear" /\ overlay_calls["executor"].op = "blit"
    /\ frame = "none"
    /\ \E c \in OverlayCells : Lost(c)

-----------------------------------------------------------------------------
(* Properties of the journal's version stamps *)

\* C28: in every state reached by single-threaded use of the Drawing, version is the length
\* of the undo stack, the k-th entry of the undo stack (counted from 0) carries version
\* stamp k, the top of the redo stack carries a stamp equal to version, and no version
\* assertion of _perform_edit, undo or redo fails.
C28_JournalConsistent ==
    /\ version = Len(undos)
    /\ \A k \in 1..Len(undos) : undos[k].version = k - 1
    /\ redos # <<>> => Last(redos).version = version
    /\ raised # "AssertionError"

\* an undo has failed its version assertion: a revert that raised had left the journal one
\* entry short
C28_Witness ==
    /\ lastOp = "undo" /\ raised = "AssertionError"
    /\ before.op = "undo" /\ before.version = version
    /\ version > Len(undos)

-----------------------------------------------------------------------------
(* Properties of painting through a view *)

\* the store cell that the view shows at each of its positions
Displayed == rotated([p \in Coords(shape) |-> p], shape, rotation)

\* the store cells the view shows at rect in layer index
Slab(index, rect) ==
    {Displayed[<<x, y, index>>] : x \in rect.x0..(rect.x1 - 1), y \in rect.y0..(rect.y1 - 1)}

\* the last call was modify_layer and it made its edit
Painted == lastOp = "modify_layer" /\ raised = NoExc

\* C29: in every orientation, modify_layer(index, rect, data, tool) changes exactly the store
\* cells that view.data displays at rect in the layer named by its index argument: the
\* painted cells of data show there afterwards, and no cell outside that slab changes.
C29_PaintsNamedLayer ==
    Painted =>
        /\ \A p \in Coords(shape) \ Slab(lastArgs.index, lastArgs.rect) :
              data[p] = before.store.data[p]
        /\ \A x \in lastArgs.rect.x0..(lastArgs.rect.x1 - 1),
              y \in lastArgs.rect.y0..(lastArgs.rect.y1 - 1) :
              LET v == lastArgs.data[<<x - lastArgs.rect.x0, y - lastArgs.rect.y0, 0>>]
                  p == Displayed[<<x, y, lastArgs.index>>]
              IN data[p] = IF OverlayBool(v) THEN ToUint8(v.lo) ELSE before.store.data[p]

\* modify_layer was asked to paint a layer other than the one of the cursor, in a turned
\* view, and a cell outside the slab it was given has changed
C29_Witness ==
    /\ Painted
    /\ rotation # <<0, 0, 0>>
    /\ <<lastArgs.index>> # get_index(get_direction(rotation), rotated_shape(shape, rotation),
                                      cursor)
    /\ \E p \in Coords(shape) \ Slab(lastArgs.index, lastArgs.rect) :
          data[p] # before.store.data[p]

-----------------------------------------------------------------------------
(* Properties of the overlay cache *)

\* C30: as long as a view keeps its size, every access to view.overlay gives the same
\* Overlay, whatever other views or sizes had their overlay accessed in between, and what
\* was drawn into it is not lost to a silently re-created Overlay.
C30_OverlayKept ==
    (got # None /\ got[1].before # 0) =>
        /\ got[1].overlay = got[1].before
        /\ got[1].had => got[1].drawn

\* a view that kept its size is handed a new, empty Overlay although something had been
\* drawn into the one it had
C30_Witness ==
    /\ got # None /\ got[1].before # 0
    /\ got[1].overlay # got[1].before
    /\ got[1].had /\ ~got[1].drawn

-----------------------------------------------------------------------------
(* Properties of the saved mark *)

\* the call before the last one was a normal save that succeeded, and the last call was
\* not a save
JustSaved ==
    /\ before.op = "save" /\ before.exc = NoExc /\ ~before.args.auto
    /\ lastOp # "save"

\* C31: whenever the cells or the palette differ from what they were at the last successful
\* normal save, unsaved is true; here for the call that follows the save (save, then undo).
C31_ChangedMeansUnsaved ==
    (JustSaved /\ (data # before.store.data \/ palette # before.store.palette)) => unsaved

\* an edit was saved and then undone: the cells are no longer the saved ones and unsaved
\* is false
C31_Witness ==
    /\ JustSaved /\ lastOp = "undo" /\ completed
    /\ data # before.store.data
    /\ ~unsaved

-----------------------------------------------------------------------------
(* Atomicity of the edits with respect to the journal *)

\* the operations that go through the journal
JournalOps ==
    {"modify", "insert_layers", "delete_layers", "move_layer", "rotate", "flip",
     "change_colors", "undo", "redo"}

\* cells, shape, hidden layers, version and both stacks are as before the last call
AsBefore ==
    /\ data = before.store.data
    /\ shape = before.store.shape
    /\ hidden_layers_by_axis = before.store.hidden
    /\ version = before.version
    /\ undos = before.undos
    /\ redos = before.redos

\* C32: a journal operation that raises leaves cells, shape, hidden layers, version and both
\* stacks exactly as they were before the call.
C32_RaisingEditChangesNothing ==
    (lastOp \in JournalOps /\ raised # NoExc) => AsBefore

\* insert_layers raised after it had already inserted the layers
C32_Witness ==
    /\ lastOp = "insert_layers" /\ raised = "TypeError"
    /\ shape # before.store.shape
    /\ version = before.version /\ undos = before.undos

-----------------------------------------------------------------------------
(* Liveness of a stroke *)

\* a mouse_up waits in the queue of the active stroke
MouseUpQueued == mouse_event_queue # None /\ "mouse_up" \in SeqToSet(mouse_event_queue[1])

\* the window is idle: the next press of the left or right button starts a stroke
IdleWindow == mouse_event_queue = None /\ stroke = None

\* C33: with an executor that goes on, once a mouse_up is in the queue of the active stroke
\* the window eventually is idle again (mouse_event_queue and stroke both None).
C33_StrokeEnds == MouseUpQueued ~> IdleWindow

\* make_stroke has taken the mouse_up and returned the tool, _finish_stroke has run, the
\* executor has nothing left to do, and the window still holds the queue and the stroke
C33_Witness ==
    /\ lastOp = "_finish_stroke" /\ raised = "AttributeError"
    /\ executor = <<>>
    /\ \E i \in 1..Len(stroke_log) : stroke_log[i] = <<"finish", tools>>
    /\ mouse_event_queue # None /\ stroke # None

-----------------------------------------------------------------------------
(* A stroke commit against undo and redo *)

\* the journal counts and stamps its edits
Stamped == version = Len(undos) /\ \A i \in 1..Len(undos) : undos[i].version = i - 1

\* C34: however undo()/redo() on the main thread interleave with a stroke commit on the
\* executor's thread, the commit's edit is performed on the cells its diff was computed
\* from, and once both threads have left their methods version = Len(undos) with the
\* edits stamped 0, 1, ...
C34_CommitAgainstItsStore ==
    /\ (lastOp = "edit.perform" /\ lastArgs.thread = "executor")
          => before.store.data = calls["executor"][1].base
    /\ calls = [t \in Threads |-> None] => Stamped

\* undo() reverted the last edit between the commit's assert and its perform: the diff is
\* applied to other cells than it was computed from
C34_Witness ==
    /\ lastOp = "edit.perform" /\ lastArgs.thread = "executor" /\ raised = NoExc
    /\ before.store.data # calls["executor"][1].base
    /\ redos # <<>>

-----------------------------------------------------------------------------
(* The dirty region of the drawing between an edit and the renderer *)

\* neither thread is inside modify or render_view
BothReturned == \A t \in Threads : Returned(t)

\* C35: with an edit on one thread and render_view on the other, no changed region is lost:
\* once both have returned, every cell whose value the texture does not show lies in
\* drawing.dirty, and the box render_view uploads to is the box it copied.
C35_NoRegionLost ==
    /\ BothReturned =>
         \A p \in Coords(shape) : Texture("ui")[p] # data[p] => Covers(dirty, p)
    /\ (calls["ui"] # None /\ calls["ui"][1].pc \in {"boxed", "reset", "done"}
          /\ calls["ui"][1].box # None)
         => calls["ui"][1].box = calls["ui"][1].copied

\* a frame and an edit have both returned, the frame uploaded the box it copied, the edit
\* changed a cell outside of it, the texture shows the old value there and drawing.dirty
\* is None
C35_Witness ==
    /\ BothReturned
    /\ calls["ui"] # None /\ calls["ui"][1].copied # None
    /\ calls["ui"][1].box = calls["ui"][1].copied
    /\ dirty = None
    /\ undos # <<>>
    /\ \E p \in Coords(shape) :
         /\ Covers(Last(undos).slc, p)
         /\ Texture("ui")[p] # data[p]

-----------------------------------------------------------------------------
(* The .ora round trip *)

\* a drawing was written by to_ora and the file was loaded by from_ora
Reloaded == lastOp = "from_ora"

\* C36: a drawing written to an .ora file and loaded from it has the same shape, the same
\* cells in every layer (those of hidden layers too), the same layer order and the same
\* hidden-layer sets.
C36_OraRoundTrip ==
    Reloaded =>
        /\ shape = before.store.shape
        /\ data = before.store.data
        /\ hidden_layers_by_axis = before.store.hidden

\* a drawing with a hidden layer was saved and loaded: shape and hidden sets are the saved
\* ones, a cell of the hidden layer that was not 0 is 0
C36_Witness ==
    /\ Reloaded
    /\ shape = before.store.shape
    /\ hidden_layers_by_axis = before.store.hidden
    /\ \E p \in Coords(shape) :
         /\ IsMasked(shape, hidden_layers_by_axis, p)
         /\ before.store.data[p] # 0
         /\ data[p] = 0

-----------------------------------------------------------------------------
(* The view's direction and its current layer *)

\* v is a unit vector along an axis, with a sign
UnitAxis(v) ==
    /\ \A a \in 1..3 : v[a] \in {-1, 0, 1}
    /\ Cardinality({a \in 1..3 : v[a] # 0}) = 1

\* the cells of layer k of the store along axis a
StoreLayer(a, k) == {data[p] : p \in {c \in Coords(shape) : c[a + 1] = k}}

\* the cells of layer k of the view's array
ViewLayer(k) ==
    LET vsh == rotated_shape(shape, rotation)
        arr == rotated(data, shape, rotation)
    IN {arr[<<q[1], q[2], k>>] : q \in (0..(vsh[1] - 1)) \X (0..(vsh[2] - 1))}

\* the current layer of the view has been read
LayerRead == lastOp = "view_layer" /\ raised = NoExc

\* C37: for every rotation triple the view's direction is a signed unit vector along the
\* store axis that the view's array has as its third axis, layer k of the view being layer
\* k of the store along that axis for a positive direction and layer size-1-k for a
\* negative one, and view.layer(view.index) is the store's layer through the cursor.
C37_DirectionAndLayer ==
    LayerRead =>
        LET direction == get_direction(rotation)
            a == get_axis(direction)
            n == shape[a + 1]
        IN /\ UnitAxis(direction)
           /\ rotated_shape(shape, rotation)[3] = n
           /\ \A k \in 0..(n - 1) :
                ViewLayer(k) = StoreLayer(a, IF direction[a + 1] = 1 THEN k ELSE n - 1 - k)
           /\ returned # None
           /\ {returned[1][q] : q \in DOMAIN returned[1]} = StoreLayer(a, cursor[a + 1])

\* the current layer was read in a view whose direction is negative, with the cursor away
\* from the middle layer
C37_Witness ==
    /\ LayerRead
    /\ \E a \in 1..3 : get_direction(rotation)[a] = -1 /\ shape[a] = 3 /\ cursor[a] = 2
    /\ returned # None

-----------------------------------------------------------------------------
(* The callbacks make_stroke gives the tool *)

\* the entries of the record that are callbacks of the tool
IsCallback(i) == stroke_log[i].kind # "event"

\* the event make_stroke went on with before the one recorded at i
EventBefore(i) ==
    LET earlier == {j \in 1..(i - 1) : stroke_log[j].kind = "event"}
    IN stroke_log[CHOOSE j \in earlier : \A k \in earlier : k <= j]

\* C38: the first event must be mouse_down and tool.start is called once, before any
\* tool.draw; tool.draw is called only for a mouse_drag whose args differ from those of the
\* event processed before it; tool.finish is called at most once, only for a mouse_up, and
\* no callback follows it.
C38_CallbackProtocol ==
    \A i \in 1..Len(stroke_log) :
        /\ (i = 1) => stroke_log[i] = Fetched(stroke_log[i])
        /\ (i = 1 /\ stroke_log[i].type # "mouse_down") => Len(stroke_log) = 1
        /\ stroke_log[i].kind = "start" <=> (i = 2)
        /\ stroke_log[i].kind = "draw" =>
              /\ stroke_log[i - 1] = Fetched(stroke_log[i])
              /\ stroke_log[i].type = "mouse_drag"
              /\ stroke_log[i].pos # EventBefore(i - 1).pos
        /\ stroke_log[i].kind = "finish" =>
              /\ stroke_log[i - 1] = Fetched(stroke_log[i])
              /\ stroke_log[i].type = "mouse_up"
              /\ i = Len(stroke_log)

\* a stroke of a tool with a period was started, drew for a drag to another pixel, and was
\* finished
C38_Witness ==
    /\ At("executor", "make_stroke", "returned")
    /\ calls["executor"][1].period # None
    /\ Len(stroke_log) >= 6
    /\ stroke_log[2].kind = "start"
    /\ stroke_log[4].kind = "draw"
    /\ stroke_log[Len(stroke_log)].kind = "finish"

-----------------------------------------------------------------------------
(* Properties of the ephemeral preview *)

\* the statements of make_stroke between the clear of the old preview and the end of the block
InBlock == {"locked", "wrote", "read", "cleared", "redrawn"}

\* make_stroke is inside its `with view.overlay.lock:` block
Redrawing ==
    /\ calls["executor"] # None
    /\ calls["executor"][1].pc \in InBlock
    /\ calls["executor"][1].rect # None

\* render_view is between its acquire and its release, where it reads overlay.data
Observing == overlay_calls["ui"].at \in {"acquired", "took"}

\* C39: for an ephemeral tool the clear of the previous preview rectangle and the redraw are
\* one critical section under the overlay lock, and the renderer reads the overlay only
\* under that lock: it never observes the overlay cleared but not yet redrawn, and no frame
\* uploads while the stroke is inside the section.
C39_PreviewAtomic ==
    /\ [](Redrawing => (overlay_lock = <<"executor">> /\ ~Observing))
    /\ [][Redrawing => overlay_texture' = overlay_texture]_vars

\* the first preview was uploaded, the stroke has cleared it inside the block and not yet
\* redrawn, and the frame that came meanwhile gave up: the texture still shows the preview
C39_Witness ==
    /\ At("executor", "make_stroke", "cleared")
    /\ frame = "gave_up"
    /\ overlay_dirty # None
    /\ \E c \in OverlayCells : overlay_texture[c] = 1 /\ overlay_data[c] = 0

-----------------------------------------------------------------------------
(* Properties of the palette *)

\* the last call was a live preview of a colour, or the end of one
Previewed256 == lastOp \in {"set_overlay", "clear_overlay"}

\* C40: the committed colour table always has 256 entries, whatever change_colors, undo and
\* redo were called with; an undo of change_colors restores every entry; set_overlay and
\* clear_overlay change neither the committed table nor the version nor the stacks.
C40_PaletteSize ==
    /\ Len(palette) = PaletteSize
    /\ (Undone /\ before.op = "change_colors") => palette = hist[version + 1].palette
    /\ Previewed256 => /\ palette = before.store.palette
                       /\ version = before.version
                       /\ undos = before.undos
                       /\ redos = before.redos

\* two colours were written at the last index and the edit undone: the table has 257 entries
\* and the second new colour is still in it
C40_Witness ==
    /\ Undone /\ before.op = "change_colors" /\ before.done
    /\ Len(hist[version + 1].palette) = PaletteSize
    /\ Len(palette) = PaletteSize + 1
    /\ palette[PaletteSize + 1] \in NewColors

====
